---- MODULE Spec2Model ----
(***************************************************************************)
(* Verification model of the text-replacement engine of                   *)
(* brev_kodning_automization (src/src/components/replace_field_text.py):  *)
(* normalizer, text locator, overlap resolver and style-preserving         *)
(* rewriter.  Texts are sequences of one-character strings; offsets are    *)
(* 0-based as in the Python source, sequence indices are 1-based.          *)
(***************************************************************************)
EXTENDS Integers, Sequences, FiniteSets, TLC

VARIABLES
    pc,                  \* position of the modelled call
    text,                \* haystack handed to the normalizer / locator
    search_text,         \* needle handed to the locator
    text_clean,          \* _normalize_text_for_matching(text)
    prev_clean,          \* the normalized text before it was normalized again
    norm_offset,            \* the normalized offset handed to _map_normalized_to_original_position
    orig_pos,            \* result of _map_normalized_to_original_position
    occurrences,         \* result of _find_text_occurrences
    runs,                \* paragraph.runs: sequence of [text, style]
    json_data,           \* replacement pairs handed to _process_paragraph
    all_matches,         \* local all_matches of _process_paragraph
    full_paragraph_text, \* paragraph text when _process_paragraph started
    resolved,            \* the list returned by _remove_overlapping_matches
    matches_in,          \* the matches argument _remove_overlapping_matches was called with
    last,                \* what the latest _apply_replacement call saw and did
    found_text,          \* the slice handed to _is_reasonable_match
    is_reasonable,       \* result of _is_reasonable_match(found_text, search_text)
    synth,               \* the field routine called, its keys and the elements it emitted
    field_runs,          \* the runs that hold the emitted elements, each a sequence of elements
    fields,              \* result of WordFieldExtractor._process_runs_for_fields(field_runs)
    doc,                 \* doc.paragraphs: a sequence of paragraphs, each a sequence of runs
    doc_before,          \* the document when regex_replace_docx was called
    repl_arg,            \* the repl argument and allow_newlines_in_replacement
    text_index,          \* index of _build_text_index(doc)
    match_list,          \* matches, list(regex.finditer(flat)), as [start, end) spans
    remaining,           \* how many matches the reversed loop has still to visit
    replaced,            \* local replaced of regex_replace_docx
    last_edit,           \* what the latest iteration of the loop saw and wrote
    colour_runs,         \* paragraph.runs handed to replace_titles_with_mergefields_respecting_colors
    title_map,           \* its mappings argument: <<title, key>> pairs in insertion order
    colour_segments,     \* local segments
    valid_matches,       \* local valid_matches, sorted by start descending
    kept_matches,        \* local final_matches
    replaced_text,       \* the result_text returned
    paragraph_after,     \* paragraph.runs when the call has returned
    if_text,             \* the text handed to transform_text_with_if_betingelse
    if_mappings,         \* its mappings argument
    if_result,           \* the text it returned
    pattern_arg,         \* the pattern argument of regex_replace_docx
    regex_list,          \* the regex_list argument of process_document_with_regexes
    compiled_patterns,   \* local compiled_patterns
    regex_pos,           \* how many entries of regex_list the compile loop has visited
    regex_results,       \* the results returned by find_patterns
    template_runs,       \* para.runs of the paragraph process_docx_template is rewriting
    template_before,     \* para.runs when process_docx_template reached the paragraph
    template_mappings,   \* its mappings argument: <<title, key>> pairs in insertion order
    run_data,            \* local run_data: the run texts collected before the loop
    run_pos,             \* how many entries of run_data the loop has visited
    debug_para           \* local debug_para

locVars  == <<text, search_text, text_clean, prev_clean, norm_offset, orig_pos, occurrences>>
paraVars == <<runs, json_data, all_matches, full_paragraph_text, resolved, matches_in, last>>
gateVars == <<found_text, is_reasonable>>
fieldVars == <<synth, field_runs, fields>>
regexVars == <<doc, doc_before, repl_arg, text_index, match_list, remaining, replaced, last_edit,
               pattern_arg>>
colourVars == <<colour_runs, title_map, colour_segments, valid_matches, kept_matches, replaced_text,
                paragraph_after>>
ifVars == <<if_text, if_mappings, if_result>>
patVars == <<regex_list, compiled_patterns, regex_pos, regex_results>>
tplVars == <<template_runs, template_before, template_mappings, run_data, run_pos, debug_para>>
lateVars == <<ifVars, patVars, tplVars>>
earlyVars == <<locVars, paraVars, gateVars, fieldVars, regexVars, colourVars>>
extVars  == <<gateVars, fieldVars, regexVars, colourVars, lateVars>>
vars     == <<pc, locVars, paraVars, extVars>>

----------------------------------------------------------------------------
(* Bounds of the model *)

MaxNormLen == 3
MaxTextLen == 4
MaxSearchLen == 4
MaxPos == 4
MaxCands == 3
MaxParaLen == 3
MaxRuns == 2
MaxPairs == 2
MaxFoundLen == 4
MaxNeedleLen == 4
MaxKeyLen == 2
MaxDocLen == 4
MaxMatches == 2
MaxColourRuns == 2
MaxTitles == 2
MaxPatterns == 3
MaxTemplateRuns == 2

----------------------------------------------------------------------------
(* Characters *)

SPACE == " "
TAB == "\t"
DQ == "\""
SQ == "'"
\* the curly glyphs U+201C, U+201D, U+2018, U+2019, each one character
LDQ == "LDQ"
RDQ == "RDQ"
LSQ == "LSQ"
RSQ == "RSQ"

None == "None"

Min(a, b) == IF a < b THEN a ELSE b
Max(a, b) == IF a > b THEN a ELSE b

\* str.isspace() / regex \s
IsSpace(c) == c \in {SPACE, TAB}

\* str.lower() on one character
LowerChar(c) ==
    CASE c = "A" -> "a"
      [] c = "B" -> "b"
      [] c = "C" -> "c"
      [] c = "D" -> "d"
      [] c = "E" -> "e"
      [] c = "F" -> "f"
      [] c = "I" -> "i"
      [] c = "K" -> "k"
      [] c = "M" -> "m"
      [] c = "S" -> "s"
      [] c = "X" -> "x"
      [] OTHER -> c

Lower(s) == [i \in 1..Len(s) |-> LowerChar(s[i])]

\* Python s[a:b] for 0 <= a
Slice(s, a, b) == SubSeq(s, a + 1, Min(b, Len(s)))

\* Python s[a:]
SliceFrom(s, a) == SubSeq(s, a + 1, Len(s))

\* all texts over alphabet of length lo..hi
TextsOver(alphabet, lo, hi) == UNION {[1..n -> alphabet] : n \in lo..hi}

\* str.startswith / str.endswith
StartsWith(s, p) == Len(p) <= Len(s) /\ SubSeq(s, 1, Len(p)) = p
EndsWith(s, p) == Len(p) <= Len(s) /\ SubSeq(s, Len(s) - Len(p) + 1, Len(s)) = p

----------------------------------------------------------------------------
(* Normalizer *)

\* the character class of re.sub(r'["""]', '"', text)
DoubleQuoteClass == {DQ}

\* the character class of re.sub(r"[''']", "'", text)
SingleQuoteClass == {SQ}

ReplaceQuotes(s) ==
    [i \in 1..Len(s) |->
        IF s[i] \in DoubleQuoteClass THEN DQ
        ELSE IF s[i] \in SingleQuoteClass THEN SQ
        ELSE s[i]]

\* str.strip(" "): only the space character is stripped
StripSpacesOnly(s) ==
    LET keep == {i \in 1..Len(s) : s[i] # SPACE}
    IN IF keep = {} THEN <<>>
       ELSE SubSeq(s, CHOOSE i \in keep : \A j \in keep : i <= j,
                      CHOOSE i \in keep : \A j \in keep : j <= i)

\* str.strip()
Strip(s) ==
    LET keep == {i \in 1..Len(s) : ~IsSpace(s[i])}
    IN IF keep = {} THEN <<>>
       ELSE SubSeq(s, CHOOSE i \in keep : \A j \in keep : i <= j,
                      CHOOSE i \in keep : \A j \in keep : j <= i)

\* re.sub(r"\s+", " ", s)
RECURSIVE CollapseWhitespace(_)
CollapseWhitespace(s) ==
    IF s = <<>> THEN <<>>
    ELSE IF IsSpace(s[1])
         THEN IF Len(s) >= 2 /\ IsSpace(s[2])
              THEN CollapseWhitespace(Tail(s))
              ELSE <<SPACE>> \o CollapseWhitespace(Tail(s))
         ELSE <<s[1]>> \o CollapseWhitespace(Tail(s))

NormalizeTextForMatching(s) == CollapseWhitespace(Strip(ReplaceQuotes(s)))

----------------------------------------------------------------------------
(* Text locator *)

\* str.find(sub, start): the lowest offset >= start where sub occurs, or -1
Find(s, sub, start) ==
    LET hits == {p \in start..(Len(s) - Len(sub)) : Slice(s, p, p + Len(sub)) = sub}
    IN IF hits = {} THEN -1 ELSE CHOOSE p \in hits : \A q \in hits : p <= q

\* the loop with start = pos + len(search_text): overlapping occurrences are skipped
RECURSIVE ExactMatchesSkipping(_, _, _)
ExactMatchesSkipping(s, sub, start) ==
    LET pos == Find(s, sub, start)
    IN IF pos = -1 THEN <<>>
       ELSE <<<<pos, pos + Len(sub)>>>> \o ExactMatchesSkipping(s, sub, pos + Len(sub))

\* the while loop of _find_exact_matches, entered with the given start
RECURSIVE ExactMatchesFrom(_, _, _)
ExactMatchesFrom(s, sub, start) ==
    LET pos == Find(s, sub, start)
    IN IF pos = -1 THEN <<>>
       ELSE <<<<pos, pos + Len(sub)>>>> \o ExactMatchesFrom(s, sub, pos + 1)

FindExactMatches(s, sub) == ExactMatchesFrom(s, sub, 0)

\* str.split(): the whitespace-delimited words, in order
RECURSIVE Split(_)
Split(s) ==
    LET t == Strip(s)
    IN IF t = <<>> THEN <<>>
       ELSE LET ws == {i \in 1..Len(t) : IsSpace(t[i])}
                n  == IF ws = {} THEN Len(t) + 1
                      ELSE CHOOSE i \in ws : \A j \in ws : i <= j
            IN <<SubSeq(t, 1, n - 1)>> \o Split(SubSeq(t, n, Len(t)))

\* the similarity gate left out: every mapped hit is accepted
AcceptEveryMatch(found, search) == TRUE

\* the gate with the word check of lines 231-239 left out
LengthGateOnly(found, search) ==
    /\ Len(search) > 0
    /\ ~(10 * Len(found) < 8 * Len(search))
    /\ ~(10 * Len(found) > 12 * Len(search))

\* len_ratio < 0.8 or len_ratio > 1.2 over the integers; word_ratio >= 0.7
IsReasonableMatch(found, search) ==
    LET search_words == Split(Lower(search))
        found_words  == Split(Lower(found))
        common_words == Cardinality({i \in 1..Len(search_words) :
                            \E j \in 1..Len(found_words) : found_words[j] = search_words[i]})
    IN /\ Len(search) > 0
       /\ ~(10 * Len(found) < 8 * Len(search))
       /\ ~(10 * Len(found) > 12 * Len(search))
       /\ Len(search_words) > 0
       /\ 10 * common_words >= 7 * Len(search_words)

\* the first offset >= i of a non-whitespace character, or len(original_text)
EndOfWhitespace(original, i) ==
    LET stop == {j \in i..(Len(original) - 1) : ~IsSpace(original[j + 1])}
    IN IF stop = {} THEN Len(original) ELSE CHOOSE j \in stop : \A k \in stop : j <= k

\* the list orig_to_norm built by the while loop from offset i on, with
\* norm_pos_current = cur, closed by the append after the loop.  A whitespace
\* run appends once at the top of the loop and once more per character of
\* the run in the inner loop.
RECURSIVE OrigToNorm(_, _, _)
OrigToNorm(original, i, cur) ==
    IF i >= Len(original) THEN <<cur>>
    ELSE IF original[i + 1] \in {DQ, SQ}
         THEN <<cur>> \o OrigToNorm(original, i + 1, cur + 1)
    ELSE IF IsSpace(original[i + 1])
         THEN LET j == EndOfWhitespace(original, i)
              IN <<cur>> \o [k \in 1..(j - i) |-> cur] \o OrigToNorm(original, j, cur + 1)
    ELSE <<cur>> \o OrigToNorm(original, i + 1, cur + 1)

MapNormalizedToOriginalPosition(original, normalized, norm_pos) ==
    IF norm_pos <= 0 THEN 0
    ELSE IF norm_pos >= Len(normalized) THEN Len(original)
    ELSE LET orig_to_norm == OrigToNorm(original, 0, 0)
             reach == {p \in 1..Len(orig_to_norm) : orig_to_norm[p] >= norm_pos}
         IN IF reach = {} THEN Len(original)
            ELSE (CHOOSE p \in reach : \A q \in reach : p <= q) - 1

\* the normalized-search loop of _find_text_occurrences, entered with the given start
RECURSIVE FuzzyMatchesFrom(_, _, _, _, _)
FuzzyMatchesFrom(s, search, s_clean, search_clean, start) ==
    LET pos == Find(Lower(s_clean), Lower(search_clean), start)
    IN IF pos = -1 THEN <<>>
       ELSE LET original_start == MapNormalizedToOriginalPosition(s, s_clean, pos)
                original_end   == MapNormalizedToOriginalPosition(s, s_clean,
                                                                  pos + Len(search_clean))
                accepted ==
                    /\ original_end <= Len(s)
                    /\ IsReasonableMatch(Slice(s, original_start, original_end), search)
            IN (IF accepted THEN <<<<original_start, original_end>>>> ELSE <<>>)
               \o FuzzyMatchesFrom(s, search, s_clean, search_clean, pos + Len(search_clean))

FindTextOccurrences(s, search) ==
    LET exact_matches == FindExactMatches(s, search)
        search_text_clean == NormalizeTextForMatching(search)
        s_clean == NormalizeTextForMatching(s)
    IN IF exact_matches # <<>> THEN exact_matches
       ELSE IF search_text_clean = <<>> THEN <<>>
       ELSE FuzzyMatchesFrom(s, search, s_clean, search_text_clean, 0)

----------------------------------------------------------------------------
(* Overlap resolver *)

\* a ReplacementMatch
Match(original, replacement, start, end) ==
    [original_text |-> original, replacement_text |-> replacement,
     start_pos |-> start, end_pos |-> end]

\* the overlap test with accepted.end_pos written for accepted.start_pos
OverlapsPastEnd(match, accepted) ==
    match.start_pos < accepted.end_pos /\ match.end_pos > accepted.end_pos

\* match.start_pos < accepted.end_pos and match.end_pos > accepted.start_pos
Overlaps(match, accepted) ==
    match.start_pos < accepted.end_pos /\ match.end_pos > accepted.start_pos

\* x put behind the last element whose start is <= x's: one step of a stable
\* ascending sort
InsertAscending(sorted, x) ==
    LET before == {i \in 1..Len(sorted) : sorted[i].start_pos <= x.start_pos}
        n == IF before = {} THEN 0 ELSE CHOOSE i \in before : \A j \in before : j <= i
    IN SubSeq(sorted, 1, n) \o <<x>> \o SubSeq(sorted, n + 1, Len(sorted))

\* sorted(matches, key=lambda x: x.start_pos)
RECURSIVE SortByStart(_)
SortByStart(matches) ==
    IF matches = <<>> THEN <<>>
    ELSE InsertAscending(SortByStart(SubSeq(matches, 1, Len(matches) - 1)),
                         matches[Len(matches)])

InsertDescending(sorted, x) ==
    LET before == {i \in 1..Len(sorted) : sorted[i].start_pos >= x.start_pos}
        n == IF before = {} THEN 0 ELSE CHOOSE i \in before : \A j \in before : j <= i
    IN SubSeq(sorted, 1, n) \o <<x>> \o SubSeq(sorted, n + 1, Len(sorted))

\* the sort of line 115 without reverse=True
SortByStartForward(matches) == SortByStart(matches)

\* matches.sort(key=lambda x: x.start_pos, reverse=True): stable, descending
RECURSIVE SortByStartReverse(_)
SortByStartReverse(matches) ==
    IF matches = <<>> THEN <<>>
    ELSE InsertDescending(SortByStartReverse(SubSeq(matches, 1, Len(matches) - 1)),
                          matches[Len(matches)])

\* the greedy loop over sorted_matches, non_overlapping being what is accepted so far
RECURSIVE AcceptNonOverlapping(_, _)
AcceptNonOverlapping(sorted_matches, non_overlapping) ==
    IF sorted_matches = <<>> THEN non_overlapping
    ELSE LET match == Head(sorted_matches)
             overlaps == \E i \in 1..Len(non_overlapping) : Overlaps(match, non_overlapping[i])
         IN AcceptNonOverlapping(Tail(sorted_matches),
                IF overlaps THEN non_overlapping ELSE Append(non_overlapping, match))

\* the greedy loop run over the matches as they come, without the sort of line 377
RemoveOverlappingMatchesUnsorted(matches) ==
    IF matches = <<>> THEN matches
    ELSE AcceptNonOverlapping(matches, <<>>)

RemoveOverlappingMatches(matches) ==
    IF matches = <<>> THEN matches
    ELSE AcceptNonOverlapping(SortByStart(matches), <<>>)

----------------------------------------------------------------------------
(* Candidate matches of a paragraph *)

\* "".join(run.text for run in paragraph.runs)
RECURSIVE GetParagraphText(_)
GetParagraphText(rs) ==
    IF rs = <<>> THEN <<>> ELSE Head(rs).text \o GetParagraphText(Tail(rs))

RECURSIVE FindAllMatches(_, _)
FindAllMatches(paragraph_text, data) ==
    IF data = <<>> THEN <<>>
    ELSE LET original_text == Head(data).originalText
             replacement_text == Head(data).replacementText
             text_matches == IF original_text = <<>> THEN <<>>
                             ELSE FindTextOccurrences(paragraph_text, original_text)
         IN [i \in 1..Len(text_matches) |->
                Match(original_text, replacement_text,
                      text_matches[i][1], text_matches[i][2])]
            \o FindAllMatches(paragraph_text, Tail(data))

----------------------------------------------------------------------------
(* Re-locating a match in the current paragraph text *)

SearchWindow == 50

\* the return value None of _find_actual_match_position
NoPosition == <<>>

FindActualMatchPosition(current_text, search, expected_start) ==
    LET expected_end == expected_start + Len(search)
        search_start == Max(0, expected_start - SearchWindow)
        search_end == Min(Len(current_text), expected_start + Len(search) + SearchWindow)
        search_area == Slice(current_text, search_start, search_end)
        normalized_search == NormalizeTextForMatching(search)
        normalized_area == NormalizeTextForMatching(search_area)
        pos_area == Find(Lower(normalized_area), Lower(normalized_search), 0)
        normalized_current == NormalizeTextForMatching(current_text)
        pos_all == Find(Lower(normalized_current), Lower(normalized_search), 0)
    IN IF /\ expected_start < Len(current_text)
          /\ expected_end <= Len(current_text)
          /\ Slice(current_text, expected_start, expected_end) = search
       THEN <<expected_start, expected_end>>
       ELSE IF pos_area # -1
       THEN <<search_start + MapNormalizedToOriginalPosition(search_area, normalized_area,
                                                              pos_area),
              search_start + MapNormalizedToOriginalPosition(search_area, normalized_area,
                                                              pos_area + Len(normalized_search))>>
       ELSE IF pos_all # -1
       THEN <<MapNormalizedToOriginalPosition(current_text, normalized_current, pos_all),
              MapNormalizedToOriginalPosition(current_text, normalized_current,
                                              pos_all + Len(normalized_search))>>
       ELSE NoPosition

----------------------------------------------------------------------------
(* Format fix of the replacement text *)

IfPrefix == <<"{", SPACE, "I", "F", SPACE>>
ClosingBrace == <<SPACE, "}">>
IfMergefieldPrefix ==
    <<"{", SPACE, "I", "F", SPACE, DQ, "J", DQ, SPACE, "=", SPACE, "{", SPACE,
      "M", "E", "R", "G", "E", "F", "I", "E", "L", "D", SPACE>>

\* the character at offset i, or None behind the end
CharAt(t, i) == IF i < Len(t) THEN t[i + 1] ELSE None

\* re.sub(r'}\s*"\s*"\s*', r'}" "', t), scanning from offset i
RECURSIVE SubBraceQuotes(_, _)
SubBraceQuotes(t, i) ==
    IF i >= Len(t) THEN <<>>
    ELSE LET q1 == EndOfWhitespace(t, i + 1)
             q2 == EndOfWhitespace(t, q1 + 1)
             stop == EndOfWhitespace(t, q2 + 1)
         IN IF t[i + 1] = "}" /\ CharAt(t, q1) = DQ /\ CharAt(t, q2) = DQ
            THEN <<"}", DQ, SPACE, DQ>> \o SubBraceQuotes(t, stop)
            ELSE <<t[i + 1]>> \o SubBraceQuotes(t, i + 1)

\* the offset of the first double quote at or behind offset i, or len(t)
NextQuote(t, i) ==
    LET qs == {j \in i..(Len(t) - 1) : t[j + 1] = DQ}
    IN IF qs = {} THEN Len(t) ELSE CHOOSE j \in qs : \A k \in qs : j <= k

\* re.sub(r'"\s*"\s*([^"]+)"\s*"\s*', r'" "\1" "', t), scanning from offset i.
\* The group is what lies between the second quote and the next one, without
\* its leading whitespace; when that is all whitespace the group is its last
\* character.
RECURSIVE SubQuotedValue(_, _)
SubQuotedValue(t, i) ==
    IF i >= Len(t) THEN <<>>
    ELSE LET q2 == EndOfWhitespace(t, i + 1)
             q3 == NextQuote(t, q2 + 1)
             g  == Min(EndOfWhitespace(t, q2 + 1), q3 - 1)
             q4 == EndOfWhitespace(t, q3 + 1)
             stop == EndOfWhitespace(t, q4 + 1)
         IN IF /\ t[i + 1] = DQ /\ CharAt(t, q2) = DQ
               /\ q3 > q2 + 1 /\ CharAt(t, q3) = DQ /\ CharAt(t, q4) = DQ
            THEN <<DQ, SPACE, DQ>> \o Slice(t, g, q3) \o <<DQ, SPACE, DQ>>
                 \o SubQuotedValue(t, stop)
            ELSE <<t[i + 1]>> \o SubQuotedValue(t, i + 1)

FixReplacementText(replacement_text) ==
    LET stripped == Strip(replacement_text)
        closed == IF StartsWith(stripped, IfMergefieldPrefix) /\ ~EndsWith(stripped, ClosingBrace)
                  THEN stripped \o ClosingBrace ELSE stripped
    IN IF StartsWith(stripped, IfPrefix) /\ EndsWith(stripped, ClosingBrace)
       THEN stripped
       ELSE SubQuotedValue(SubBraceQuotes(closed, 0), 0)

----------------------------------------------------------------------------
(* Run styles *)

StyleKeys ==
    {"font_name", "font_size", "bold", "italic", "underline", "color", "highlight_color"}

\* the font of a run that paragraph.add_run has just created; also the style {}
UnsetStyle == [k \in StyleKeys |-> None]

\* Python truth value of a style attribute (every value written as a string):
\* None, "", 0 and the enum member of value 0 (WD_COLOR_INDEX.AUTO) are false
Truthy(v) == v \notin {None, "", "0", "AUTO"}

Bold      == [UnsetStyle EXCEPT !["bold"] = "True"]
Italic    == [UnsetStyle EXCEPT !["italic"] = "True"]
Marked    == [UnsetStyle EXCEPT !["bold"] = "False", !["underline"] = "True",
                                !["highlight_color"] = "YELLOW"]
Coloured  == [UnsetStyle EXCEPT !["font_name"] = "Arial", !["font_size"] = "12",
                                !["color"] = "FF0000"]

Run(t, style) == [text |-> t, style |-> style]

\* _extract_run_style(run)
ExtractRunStyle(run) ==
    [k \in StyleKeys |->
        IF k = "color"
        THEN IF Truthy(run.style["color"]) THEN run.style["color"] ELSE None
        ELSE run.style[k]]

\* the font of a fresh run after _apply_run_style(run, style)
ApplyRunStyle(style) ==
    [k \in StyleKeys |->
        IF k \in {"bold", "italic", "underline"}
        THEN IF style[k] # None THEN style[k] ELSE None
        ELSE IF Truthy(style[k]) THEN style[k] ELSE None]

\* the run whose range [current_pos, run_end) holds position, scanning from run i
RECURSIVE CoveringRun(_, _, _, _)
CoveringRun(rs, i, current_pos, position) ==
    IF i > Len(rs) THEN 0
    ELSE LET run_end == current_pos + Len(rs[i].text)
         IN IF current_pos <= position /\ position < run_end THEN i
            ELSE CoveringRun(rs, i + 1, run_end, position)

\* the lookup that returns the first run's style whatever the position
StyleOfFirstRun(rs, position) ==
    IF rs # <<>> THEN ExtractRunStyle(rs[1]) ELSE UnsetStyle

GetStyleAtPosition(rs, position) ==
    LET i == CoveringRun(rs, 1, 0, position)
    IN IF i # 0 THEN ExtractRunStyle(rs[i])
       ELSE IF rs # <<>> THEN ExtractRunStyle(rs[Len(rs)])
       ELSE UnsetStyle

\* original_runs of _replace_paragraph_text holds each run's text, extracted
\* style, start and end; the lookup reads the same ranges as CoveringRun
FindStyleForOriginalPosition(original_runs, position) ==
    LET i == CoveringRun(original_runs, 1, 0, position)
    IN IF i # 0 THEN ExtractRunStyle(original_runs[i])
       ELSE IF original_runs # <<>> THEN ExtractRunStyle(original_runs[Len(original_runs)])
       ELSE UnsetStyle

----------------------------------------------------------------------------
(* Style-preserving rewriter *)

\* the runs paragraph.add_run appends, an empty text adding no run
AddedRun(t, style) == IF t = <<>> THEN <<>> ELSE <<Run(t, ApplyRunStyle(style))>>

\* the paragraph's runs after _replace_paragraph_text
ReplaceParagraphText(rs, new_text, replacement_style, replacement_start, replacement_length) ==
    LET replacement_end == replacement_start + replacement_length
        before ==
            IF replacement_start > 0
            THEN AddedRun(Slice(new_text, 0, replacement_start),
                          FindStyleForOriginalPosition(rs, 0))
            ELSE <<>>
        replacement ==
            IF replacement_length > 0
            THEN AddedRun(Slice(new_text, replacement_start, replacement_end),
                          replacement_style)
            ELSE <<>>
        after ==
            IF replacement_end < Len(new_text)
            THEN AddedRun(SliceFrom(new_text, replacement_end),
                          FindStyleForOriginalPosition(rs, replacement_start))
            ELSE <<>>
    IN IF new_text = <<>> THEN <<>> ELSE before \o replacement \o after

\* lines 423-445 with the length of the unfixed replacement text passed on
RebuildWithRawLength(rs, current_text, match, actual_start, actual_end) ==
    LET fixed_replacement == FixReplacementText(match.replacement_text)
    IN ReplaceParagraphText(rs,
           Slice(current_text, 0, actual_start) \o fixed_replacement
               \o SliceFrom(current_text, actual_end),
           GetStyleAtPosition(rs, actual_start), actual_start,
           Len(match.replacement_text))

\* lines 423-445 of _apply_replacement: the runs after the rewrite of the
\* located span [actual_start, actual_end)
Rebuild(rs, current_text, match, actual_start, actual_end) ==
    LET source_style == GetStyleAtPosition(rs, actual_start)
        fixed_replacement == FixReplacementText(match.replacement_text)
        new_text == Slice(current_text, 0, actual_start) \o fixed_replacement
                        \o SliceFrom(current_text, actual_end)
    IN ReplaceParagraphText(rs, new_text, source_style, actual_start,
                            Len(fixed_replacement))

----------------------------------------------------------------------------
(* Field synthesis (src/app.py, process_document.py, convert_text_fields.py) *)

\* the w:fldChar and w:instrText elements a routine appends
FldChar(fld_char_type) == [tag |-> "fldChar", fldCharType |-> fld_char_type, text |-> <<>>]
InstrText(t) == [tag |-> "instrText", fldCharType |-> "", text |-> t]

MergefieldWord == <<"M", "E", "R", "G", "E", "F", "I", "E", "L", "D">>

\* f" MERGEFIELD {key} "
MergeFieldInstruction(key) == <<SPACE>> \o MergefieldWord \o <<SPACE>> \o key \o <<SPACE>>

\* f"MERGEFIELD {field_name}"
BareMergeFieldInstruction(key) == MergefieldWord \o <<SPACE>> \o key

\* create_merge_field(parent, key): the elements appended to parent
CreateMergeField(key) ==
    <<FldChar("begin"), InstrText(MergeFieldInstruction(key)), FldChar("end")>>

\* create_merge_field_with_formatting(parent, key, run)
CreateMergeFieldWithFormatting(key) ==
    <<FldChar("begin"), InstrText(MergeFieldInstruction(key)), FldChar("end")>>

\* the three instruction texts of the IF field: ' IF "J" = "', '" "' and '"'
IfOpening == <<SPACE, "I", "F", SPACE, DQ, "J", DQ, SPACE, "=", SPACE, DQ>>
IfMiddle  == <<DQ, SPACE, DQ>>
IfClosing == <<DQ>>

\* create_if_field without the end marker of the IF field
CreateIfFieldUnclosed(condition_key, true_result_key) ==
    <<FldChar("begin"), InstrText(IfOpening)>>
        \o CreateMergeField(condition_key)
        \o <<InstrText(IfMiddle)>>
        \o CreateMergeField(true_result_key)
        \o <<InstrText(IfClosing)>>

\* create_if_field(parent, condition_key, true_result_key)
CreateIfField(condition_key, true_result_key) ==
    <<FldChar("begin"), InstrText(IfOpening)>>
        \o CreateMergeField(condition_key)
        \o <<InstrText(IfMiddle)>>
        \o CreateMergeField(true_result_key)
        \o <<InstrText(IfClosing), FldChar("end")>>

\* create_if_field_with_formatting(parent, condition_key, true_result_key, run)
CreateIfFieldWithFormatting(condition_key, true_result_key) ==
    <<FldChar("begin"), InstrText(IfOpening)>>
        \o CreateMergeFieldWithFormatting(condition_key)
        \o <<InstrText(IfMiddle)>>
        \o CreateMergeFieldWithFormatting(true_result_key)
        \o <<InstrText(IfClosing), FldChar("end")>>

\* create_mergefield_element(field_name): the returned elements
CreateMergefieldElement(field_name) ==
    <<FldChar("begin"), InstrText(BareMergeFieldInstruction(field_name)), FldChar("end")>>

\* _insert_mergefield(paragraph, field_name): the three runs added, one element each
InsertMergefield(field_name) ==
    <<<<FldChar("begin")>>, <<InstrText(MergeFieldInstruction(field_name))>>,
      <<FldChar("end")>>>>

\* the elements of a list of runs, in document order
RECURSIVE JoinRuns(_)
JoinRuns(rs) == IF rs = <<>> THEN <<>> ELSE Head(rs) \o JoinRuns(Tail(rs))

\* FieldConverter._add_merge_field(paragraph, field_name): the elements of the run added
AddMergeField(field_name) ==
    <<FldChar("begin"), InstrText(MergeFieldInstruction(field_name)),
      FldChar("separate"), FldChar("end")>>

----------------------------------------------------------------------------
(* Field extractor (src/src/helper_modules/extract_fields_from_documents.py) *)

\* the w:t element of a run
TextElement(t) == [tag |-> "t", fldCharType |-> "", text |-> t]

\* the guillemets that enclose a field result, each one character
LAQ == "LAQ"
RAQ == "RAQ"

\* str.upper() on one character
UpperChar(c) ==
    CASE c = "a" -> "A"
      [] c = "f" -> "F"
      [] c = "k" -> "K"
      [] c = "x" -> "X"
      [] OTHER -> c

Upper(s) == [i \in 1..Len(s) |-> UpperChar(s[i])]

\* the elements of a run with the given tag, in document order (findall)
RECURSIVE FindAll(_, _)
FindAll(s, tag) ==
    IF s = <<>> THEN <<>>
    ELSE (IF Head(s).tag = tag THEN <<Head(s)>> ELSE <<>>) \o FindAll(Tail(s), tag)

\* the concatenation of the non-empty texts of the elements
RECURSIVE JoinTexts(_)
JoinTexts(elems) ==
    IF elems = <<>> THEN <<>> ELSE Head(elems).text \o JoinTexts(Tail(elems))

\* re.sub of the pattern LAQ [^RAQ]* RAQ by the empty string
RECURSIVE RemoveFieldResults(_)
RemoveFieldResults(s) ==
    IF s = <<>> THEN <<>>
    ELSE LET closing == {j \in 2..Len(s) : s[j] = RAQ}
         IN IF s[1] = LAQ /\ closing # {}
            THEN RemoveFieldResults(
                     SubSeq(s, (CHOOSE j \in closing : \A k \in closing : j <= k) + 1, Len(s)))
            ELSE <<s[1]>> \o RemoveFieldResults(Tail(s))

\* WordFieldExtractor._clean_field_code
CleanFieldCode(field_code) == Strip(CollapseWhitespace(RemoveFieldResults(field_code)))

\* the inner loop of _find_nested_fields_improved: <<j, brace_count>> when it stops
RECURSIVE MatchBrace(_, _, _)
MatchBrace(field_code, j, brace_count) ==
    IF j < Len(field_code) /\ brace_count > 0
    THEN MatchBrace(field_code, j + 1,
                    IF field_code[j + 1] = "{" THEN brace_count + 1
                    ELSE IF field_code[j + 1] = "}" THEN brace_count - 1
                    ELSE brace_count)
    ELSE <<j, brace_count>>

\* WordFieldExtractor._find_nested_fields_improved, scanning from offset i
RECURSIVE NestedFieldsFrom(_, _)
NestedFieldsFrom(field_code, i) ==
    IF i >= Len(field_code) THEN <<>>
    ELSE IF field_code[i + 1] = "{"
    THEN LET m == MatchBrace(field_code, i + 1, 1)
             j == m[1]
             nested_field == Strip(Slice(field_code, i, j))
             inner_content == Strip(SubSeq(nested_field, 2, Len(nested_field) - 1))
             cleaned_inner == CleanFieldCode(inner_content)
         IN IF m[2] = 0
            THEN (IF Len(nested_field) > 2 /\ inner_content # <<>> /\ cleaned_inner # <<>>
                  THEN <<<<"{", SPACE>> \o cleaned_inner \o <<SPACE, "}">>>>
                  ELSE <<>>)
                 \o NestedFieldsFrom(field_code, j)
            ELSE NestedFieldsFrom(field_code, i + 1)
    ELSE NestedFieldsFrom(field_code, i + 1)

FindNestedFieldsImproved(field_code) == NestedFieldsFrom(field_code, 0)

\* "unknown", the type of a field whose cleaned code is empty
UnknownType == <<"u", "n", "k", "n", "o", "w", "n">>

\* the field_info dictionary of a top-level field
FieldInfo(field_code, field_result) ==
    LET cleaned_code == CleanFieldCode(field_code)
    IN [type |-> IF cleaned_code # <<>> THEN Upper(Split(cleaned_code)[1]) ELSE UnknownType,
        code |-> cleaned_code,
        result |-> field_result,
        nested_fields |-> FindNestedFieldsImproved(cleaned_code),
        full_text |-> <<"{", SPACE>> \o cleaned_code \o <<SPACE, "}">>]

\* the locals of _process_runs_for_fields before the first run
ExtractorStart ==
    [field_nesting_level |-> 0, current_field_code |-> <<>>, field_result_parts |-> <<>>,
     in_field_code |-> FALSE, in_field_result |-> FALSE, fields |-> <<>>]

\* one iteration of the loop over the run's w:fldChar elements
FldCharStep(st, fld_char_type) ==
    CASE fld_char_type = "begin" ->
            IF st.field_nesting_level + 1 = 1
            THEN [st EXCEPT !.field_nesting_level = 1, !.current_field_code = <<>>,
                            !.field_result_parts = <<>>, !.in_field_code = TRUE,
                            !.in_field_result = FALSE]
            ELSE [st EXCEPT !.field_nesting_level = @ + 1,
                            !.current_field_code = IF st.in_field_code THEN @ \o <<"{">> ELSE @]
      [] fld_char_type = "separate" ->
            IF st.field_nesting_level = 1
            THEN [st EXCEPT !.in_field_code = FALSE, !.in_field_result = TRUE]
            ELSE st
      [] fld_char_type = "end" ->
            IF st.field_nesting_level = 1
            THEN LET field_code == Strip(st.current_field_code)
                     field_result == Strip(st.field_result_parts)
                 IN [st EXCEPT !.fields = IF field_code # <<>>
                                          THEN Append(@, FieldInfo(field_code, field_result))
                                          ELSE @,
                               !.in_field_code = FALSE, !.in_field_result = FALSE,
                               !.field_nesting_level = @ - 1]
            ELSE [st EXCEPT !.current_field_code = IF st.in_field_code THEN @ \o <<"}">> ELSE @,
                            !.field_nesting_level = @ - 1]
      [] OTHER -> st

RECURSIVE FldCharSteps(_, _)
FldCharSteps(st, fld_chars) ==
    IF fld_chars = <<>> THEN st
    ELSE FldCharSteps(FldCharStep(st, Head(fld_chars).fldCharType), Tail(fld_chars))

\* one iteration of the loop over the runs: the run's field characters first,
\* then its instruction texts, then its text elements
RunStep(st, run) ==
    LET after_chars == FldCharSteps(st, FindAll(run, "fldChar"))
        after_instr ==
            IF after_chars.in_field_code
            THEN [after_chars EXCEPT !.current_field_code =
                                         @ \o JoinTexts(FindAll(run, "instrText"))]
            ELSE after_chars
    IN IF after_instr.in_field_code
       THEN [after_instr EXCEPT !.current_field_code = @ \o JoinTexts(FindAll(run, "t"))]
       ELSE IF after_instr.in_field_result
       THEN [after_instr EXCEPT !.field_result_parts = @ \o JoinTexts(FindAll(run, "t"))]
       ELSE after_instr

RECURSIVE RunSteps(_, _)
RunSteps(st, rs) ==
    IF rs = <<>> THEN st ELSE RunSteps(RunStep(st, Head(rs)), Tail(rs))

\* WordFieldExtractor._process_runs_for_fields(runs)
ProcessRunsForFields(rs) == RunSteps(ExtractorStart, rs).fields

----------------------------------------------------------------------------
(* Regex replacement across runs (src/src/components/process_runs.py) *)

\* the paragraph separator put between paragraphs in the flat text, one character
PARA_SEP == "PARA_SEP"

NL == "\n"
CR == "\r"

\* the run of an index cell that belongs to no run
NoRun == 0

\* a run of a document: an identity, its text and its font
DocRun(id, t, style) == [id |-> id, text |-> t, style |-> style]

\* the cells _build_text_index appends for one run
RunCells(p_idx, r_idx, run) ==
    [i \in 1..Len(run.text) |->
        [p_idx |-> p_idx, r_idx |-> r_idx, run |-> run.id, offset_in_run |-> i - 1,
         char |-> run.text[i]]]

\* the cells of the runs of paragraph p_idx from run r_idx on
RECURSIVE ParagraphCells(_, _, _)
ParagraphCells(p_idx, para, r_idx) ==
    IF r_idx >= Len(para) THEN <<>>
    ELSE RunCells(p_idx, r_idx, para[r_idx + 1]) \o ParagraphCells(p_idx, para, r_idx + 1)

SeparatorCell(p_idx) ==
    [p_idx |-> p_idx, r_idx |-> -1, run |-> NoRun, offset_in_run |-> -1, char |-> PARA_SEP]

\* the index of _build_text_index(doc) from paragraph p_idx on: one cell per
\* character of the flat text, a separator cell between two paragraphs
RECURSIVE BuildTextIndex(_, _)
BuildTextIndex(d, p_idx) ==
    IF p_idx >= Len(d) THEN <<>>
    ELSE ParagraphCells(p_idx, d[p_idx + 1], 0)
            \o (IF p_idx < Len(d) - 1 THEN <<SeparatorCell(p_idx)>> ELSE <<>>)
            \o BuildTextIndex(d, p_idx + 1)

\* flat_text of _build_text_index
FlatText(index) == [i \in 1..Len(index) |-> index[i].char]

\* the loop of _collect_affected_run_spans from flat offset i on; current holds
\* the span under construction, if any
RECURSIVE CollectSpansFrom(_, _, _, _, _)
CollectSpansFrom(index, i, end, current, spans) ==
    IF i >= end THEN spans \o current
    ELSE LET cell == index[i + 1]
         IN IF cell.run = NoRun
            THEN CollectSpansFrom(index, i + 1, end, <<>>, spans \o current)
            ELSE IF current = <<>> \/ current[1].run # cell.run
            THEN CollectSpansFrom(index, i + 1, end,
                     <<[run |-> cell.run, p_idx |-> cell.p_idx, r_idx |-> cell.r_idx,
                        start_off |-> cell.offset_in_run,
                        end_off |-> cell.offset_in_run + 1]>>,
                     spans \o current)
            ELSE CollectSpansFrom(index, i + 1, end,
                     <<[current[1] EXCEPT !.end_off = cell.offset_in_run + 1]>>, spans)

\* s put behind the last span whose (p_idx, r_idx) is not greater: a stable sort step
InsertByRunPosition(sorted, s) ==
    LET before == {i \in 1..Len(sorted) :
                      \/ sorted[i].p_idx < s.p_idx
                      \/ sorted[i].p_idx = s.p_idx /\ sorted[i].r_idx <= s.r_idx}
        n == IF before = {} THEN 0 ELSE CHOOSE i \in before : \A j \in before : j <= i
    IN SubSeq(sorted, 1, n) \o <<s>> \o SubSeq(sorted, n + 1, Len(sorted))

\* spans.sort(key=lambda s: (s["p_idx"], s["r_idx"]))
RECURSIVE SortByRunPosition(_)
SortByRunPosition(spans) ==
    IF spans = <<>> THEN <<>>
    ELSE InsertByRunPosition(SortByRunPosition(SubSeq(spans, 1, Len(spans) - 1)),
                             spans[Len(spans)])

\* _collect_affected_run_spans(index, start, end)
CollectAffectedRunSpans(index, start, end) ==
    SortByRunPosition(CollectSpansFrom(index, start, end, <<>>, <<>>))

\* the run with identity id, which the document holds
RunById(d, id) ==
    LET p == CHOOSE p \in 1..Len(d) : \E r \in 1..Len(d[p]) : d[p][r].id = id
        r == CHOOSE r \in 1..Len(d[p]) : d[p][r].id = id
    IN d[p][r]

\* the document with run id replaced by new_run
SetRun(d, id, new_run) ==
    [p \in 1..Len(d) |-> [r \in 1..Len(d[p]) |-> IF d[p][r].id = id THEN new_run ELSE d[p][r]]]

\* the runs of a paragraph other than run id, in order
RECURSIVE WithoutRun(_, _)
WithoutRun(para, id) ==
    IF para = <<>> THEN <<>>
    ELSE (IF Head(para).id = id THEN <<>> ELSE <<Head(para)>>) \o WithoutRun(Tail(para), id)

\* _remove_run(run)
RemoveRun(d, id) == [p \in 1..Len(d) |-> WithoutRun(d[p], id)]

\* the first affected run after lines 128-137 of _replace_in_runs
WriteFirstRun(first_run, first, replacement_text) ==
    [first_run EXCEPT
        !.text = Slice(first_run.text, 0, first.start_off) \o replacement_text
                    \o SliceFrom(first_run.text, first.end_off),
        !.style = [@ EXCEPT !["highlight_color"] = "GREEN"]]

\* the loop of lines 140-151 of _replace_in_runs over the spans after the first
RECURSIVE TrimLaterSpans(_, _)
TrimLaterSpans(d, spans) ==
    IF spans = <<>> THEN d
    ELSE LET s == Head(spans)
             run == RunById(d, s.run)
             t == run.text
         IN IF s.start_off = 0 /\ s.end_off = Len(t)
            THEN TrimLaterSpans(RemoveRun(d, s.run), Tail(spans))
            ELSE TrimLaterSpans(
                     SetRun(d, s.run,
                            [run EXCEPT !.text = Slice(t, 0, s.start_off)
                                                    \o SliceFrom(t, s.end_off)]),
                     Tail(spans))

\* the document after _replace_in_runs(spans, replacement_text)
ReplaceInRuns(d, spans, replacement_text) ==
    IF spans = <<>> THEN d
    ELSE LET first == spans[1]
             written == WriteFirstRun(RunById(d, first.run), first, replacement_text)
         IN TrimLaterSpans(SetRun(d, first.run, written), Tail(spans))

\* the replacement argument: a template without group reference, the template
\* "[\g<0>]" or the callable lambda m: m.group(0) + "!"
Repl(kind, t, allow_newlines) ==
    [kind |-> kind, text |-> t, allow_newlines_in_replacement |-> allow_newlines]

\* repl(m) for a callable, m.expand(repl) for a template
ExpandRepl(repl, matched) ==
    CASE repl.kind = "callable" -> matched \o <<"!">>
      [] repl.kind = "template" -> <<"[">> \o matched \o <<"]">>
      [] OTHER -> repl.text

\* re.sub(r"[\r\n]+", " ", rtext)
RECURSIVE ScrubNewlines(_)
ScrubNewlines(rtext) ==
    IF rtext = <<>> THEN <<>>
    ELSE IF rtext[1] \in {CR, NL}
         THEN IF Len(rtext) >= 2 /\ rtext[2] \in {CR, NL}
              THEN ScrubNewlines(Tail(rtext))
              ELSE <<SPACE>> \o ScrubNewlines(Tail(rtext))
         ELSE <<rtext[1]>> \o ScrubNewlines(Tail(rtext))

\* rtext of lines 195-203 of regex_replace_docx for the match [start, end)
ReplacementText(repl, flat, start, end) ==
    LET rtext == ExpandRepl(repl, Slice(flat, start, end))
    IN IF ~repl.allow_newlines_in_replacement /\ (\E i \in 1..Len(rtext) : rtext[i] \in {CR, NL})
       THEN ScrubNewlines(rtext)
       ELSE rtext

----------------------------------------------------------------------------
(* Colour-aware title replacement (src/src/components/find_fields.py) *)

\* a run as get_run_colors reads it: its text, font.color.rgb, the w:val of its
\* w:highlight element and the w:fill of its w:shd element (Absent where there is none)
ColourRun(t, rgb, highlight_val, shd_fill) ==
    [text |-> t, rgb |-> rgb, highlight_val |-> highlight_val, shd_fill |-> shd_fill]

\* None where a text, held as a sequence of characters, is expected
Absent == <<None>>

\* current_colors before the first run
NoColors == <<>>

\* Python truth value of a text or None
NonEmpty(v) == v # Absent /\ v # <<>>

AutoFill == <<"a", "u", "t", "o">>

\* get_run_colors(run): (text_color, highlight_color)
GetRunColors(run) ==
    LET text_color == IF NonEmpty(run.rgb) THEN run.rgb ELSE Absent
        highlight_color ==
            IF NonEmpty(run.highlight_val) THEN run.highlight_val
            ELSE IF NonEmpty(run.shd_fill) /\ run.shd_fill # AutoFill THEN run.shd_fill
            ELSE Absent
    IN <<text_color, highlight_color>>

\* the titles of a mapping, a sequence of <<title, key>> pairs with distinct
\* titles, in insertion order
TitlesOf(mappings) == [i \in 1..Len(mappings) |-> mappings[i][1]]

\* mappings[title]
KeyOf(mappings, title) ==
    mappings[CHOOSE i \in 1..Len(mappings) : mappings[i][1] = title][2]

\* title put behind the last title that is not shorter: a stable sort step
InsertByLength(sorted, title) ==
    LET before == {i \in 1..Len(sorted) : Len(sorted[i]) >= Len(title)}
        n == IF before = {} THEN 0 ELSE CHOOSE i \in before : \A j \in before : j <= i
    IN SubSeq(sorted, 1, n) \o <<title>> \o SubSeq(sorted, n + 1, Len(sorted))

\* sorted(titles, key=len, reverse=True)
RECURSIVE SortedTitles(_)
SortedTitles(titles) ==
    IF titles = <<>> THEN <<>>
    ELSE InsertByLength(SortedTitles(SubSeq(titles, 1, Len(titles) - 1)), titles[Len(titles)])

MfPrefix == <<"m", "f", SPACE, "-", SPACE>>

NoTitleMatch == <<Absent, Absent>>

\* the title at the least of the positions given, with its key
FirstTitle(sorted_titles, mappings, positions) ==
    IF positions = {} THEN NoTitleMatch
    ELSE LET title == sorted_titles[CHOOSE i \in positions : \A j \in positions : i <= j]
         IN <<title, KeyOf(mappings, title)>>

\* the lookup without the second loop of lines 64-70
ExactTitleMatchOnly(segment_text, mappings, allow_mf_prefix_matching) ==
    LET sorted_titles == SortedTitles(TitlesOf(mappings))
        segment_text_clean == Strip(segment_text)
    IN FirstTitle(sorted_titles, mappings,
                  {i \in 1..Len(sorted_titles) :
                      Lower(segment_text_clean) = Lower(sorted_titles[i])})

\* find_title_match_with_mf_prefix(segment_text, mappings, allow_mf_prefix_matching)
FindTitleMatchWithMfPrefix(segment_text, mappings, allow_mf_prefix_matching) ==
    LET sorted_titles == SortedTitles(TitlesOf(mappings))
        segment_text_clean == Strip(segment_text)
        exact == {i \in 1..Len(sorted_titles) :
                     Lower(segment_text_clean) = Lower(sorted_titles[i])}
        prefixed == {i \in 1..Len(sorted_titles) :
                        /\ StartsWith(Lower(sorted_titles[i]), MfPrefix)
                        /\ Lower(segment_text_clean) = Lower(SliceFrom(sorted_titles[i], 5))}
    IN IF exact # {} THEN FirstTitle(sorted_titles, mappings, exact)
       ELSE IF allow_mf_prefix_matching THEN FirstTitle(sorted_titles, mappings, prefixed)
       ELSE NoTitleMatch

Segment(start_pos, end_pos, t, colors) ==
    [start |-> start_pos, end |-> end_pos, text |-> t, colors |-> colors]

\* the loop of find_color_consistent_segments from run r on
RECURSIVE SegmentsFrom(_, _, _, _, _, _, _)
SegmentsFrom(rs, r, segments, current_segment_start, current_segment_text, current_colors, current_pos) ==
    IF r > Len(rs)
    THEN IF Strip(current_segment_text) # <<>>
         THEN Append(segments, Segment(current_segment_start, current_pos,
                                       current_segment_text, current_colors))
         ELSE segments
    ELSE LET run_colors == GetRunColors(rs[r])
             run_text == rs[r].text
             next_pos == current_pos + Len(run_text)
         IN IF current_colors = NoColors
            THEN SegmentsFrom(rs, r + 1, segments, current_pos, run_text, run_colors, next_pos)
            ELSE IF run_colors = current_colors
            THEN SegmentsFrom(rs, r + 1, segments, current_segment_start,
                              current_segment_text \o run_text, current_colors, next_pos)
            ELSE SegmentsFrom(rs, r + 1,
                     IF Strip(current_segment_text) # <<>>
                     THEN Append(segments, Segment(current_segment_start, current_pos,
                                                   current_segment_text, current_colors))
                     ELSE segments,
                     current_pos, run_text, run_colors, next_pos)

\* find_color_consistent_segments(paragraph)
FindColorConsistentSegments(rs) == SegmentsFrom(rs, 1, <<>>, 0, <<>>, NoColors, 0)

TitleMatch(start_pos, end_pos, title, key, length) ==
    [start |-> start_pos, end |-> end_pos, title |-> title, key |-> key, length |-> length]

\* pattern.finditer(text) for re.escape(title) with IGNORECASE, from offset i on:
\* the occurrences found scanning left to right, none overlapping the one before
RECURSIVE FindIter(_, _, _, _)
FindIter(t, title, key, i) ==
    IF i + Len(title) > Len(t) THEN <<>>
    ELSE IF Lower(Slice(t, i, i + Len(title))) = Lower(title)
         THEN <<TitleMatch(i, i + Len(title), title, key, Len(title))>>
                  \o FindIter(t, title, key, IF title = <<>> THEN i + 1 ELSE i + Len(title))
         ELSE FindIter(t, title, key, i + 1)

\* the loop of lines 137-148 over sorted_titles
RECURSIVE AllTitleMatches(_, _, _)
AllTitleMatches(t, sorted_titles, mappings) ==
    IF sorted_titles = <<>> THEN <<>>
    ELSE FindIter(t, Head(sorted_titles), KeyOf(mappings, Head(sorted_titles)), 0)
            \o AllTitleMatches(t, Tail(sorted_titles), mappings)

\* key=lambda x: (-x["length"], x["start"])
LongerThenEarlier(a, b) == a.length > b.length \/ (a.length = b.length /\ a.start <= b.start)

\* key=lambda x: x["start"], reverse=True
LaterStartFirst(a, b) == a.start >= b.start

\* x put behind the last match that sorts before it or equal: a stable sort step
InsertByLengthThenStart(sorted, x) ==
    LET ahead == {i \in 1..Len(sorted) : LongerThenEarlier(sorted[i], x)}
        n == IF ahead = {} THEN 0 ELSE CHOOSE i \in ahead : \A j \in ahead : j <= i
    IN SubSeq(sorted, 1, n) \o <<x>> \o SubSeq(sorted, n + 1, Len(sorted))

\* all_matches.sort(key=lambda x: (-x["length"], x["start"]))
RECURSIVE SortByLengthThenStart(_)
SortByLengthThenStart(ms) ==
    IF ms = <<>> THEN <<>>
    ELSE InsertByLengthThenStart(SortByLengthThenStart(SubSeq(ms, 1, Len(ms) - 1)), ms[Len(ms)])

InsertByStartDescending(sorted, x) ==
    LET ahead == {i \in 1..Len(sorted) : LaterStartFirst(sorted[i], x)}
        n == IF ahead = {} THEN 0 ELSE CHOOSE i \in ahead : \A j \in ahead : j <= i
    IN SubSeq(sorted, 1, n) \o <<x>> \o SubSeq(sorted, n + 1, Len(sorted))

\* sort(key=lambda x: x["start"], reverse=True)
RECURSIVE SortByStartDescending(_)
SortByStartDescending(ms) ==
    IF ms = <<>> THEN <<>>
    ELSE InsertByStartDescending(SortByStartDescending(SubSeq(ms, 1, Len(ms) - 1)), ms[Len(ms)])

MatchesOverlap(a, b) == ~(a.end <= b.start \/ a.start >= b.end)

\* the greedy loops of lines 155-166 and 241-249: a match is kept unless it
\* overlaps one kept before
RECURSIVE KeepNonOverlapping(_, _)
KeepNonOverlapping(ms, kept) ==
    IF ms = <<>> THEN kept
    ELSE IF \E i \in 1..Len(kept) : MatchesOverlap(Head(ms), kept[i])
         THEN KeepNonOverlapping(Tail(ms), kept)
         ELSE KeepNonOverlapping(Tail(ms), Append(kept, Head(ms)))

\* find_non_overlapping_titles(text, mappings)
FindNonOverlappingTitles(t, mappings) ==
    LET all == AllTitleMatches(t, SortedTitles(TitlesOf(mappings)), mappings)
        selected == KeepNonOverlapping(SortByLengthThenStart(all), <<>>)
    IN SortByStartDescending(selected)

GreenHighlight == <<"0", "0", "F", "F", "0", "0">>

TextInputPrefix == <<"T", "e", "x", "t", "I", "n", "p", "u", "t", ":">>

\* the matches of a text-coloured segment left at their offsets in the segment
ShiftMatchesUnshifted(ms, segment_start) == ms

\* the matches of a text-coloured segment moved to paragraph offsets (lines 225-234)
ShiftMatches(ms, segment_start) ==
    [i \in 1..Len(ms) |->
        [ms[i] EXCEPT !.start = segment_start + @, !.end = segment_start + @]]

\* the loop body with the key of a green segment left bare
SegmentMatchesBareKey(segment, mappings) ==
    LET text_color == segment.colors[1]
        highlight_color == segment.colors[2]
    IN IF NonEmpty(highlight_color)
       THEN LET segment_text_clean == Strip(segment.text)
                allow_mf_prefix == Upper(highlight_color) = GreenHighlight
                found == FindTitleMatchWithMfPrefix(segment_text_clean, mappings, allow_mf_prefix)
                final_key == found[2]
            IN IF NonEmpty(found[1])
               THEN <<TitleMatch(segment.start, segment.end, found[1], final_key,
                                 Len(segment_text_clean))>>
               ELSE <<>>
       ELSE IF NonEmpty(text_color)
       THEN ShiftMatches(FindNonOverlappingTitles(segment.text, mappings), segment.start)
       ELSE <<>>

\* what the body of the loop of lines 190-234 appends to valid_matches for one segment
SegmentMatches(segment, mappings) ==
    LET text_color == segment.colors[1]
        highlight_color == segment.colors[2]
    IN IF NonEmpty(highlight_color)
       THEN LET segment_text_clean == Strip(segment.text)
                allow_mf_prefix == Upper(highlight_color) = GreenHighlight
                found == FindTitleMatchWithMfPrefix(segment_text_clean, mappings, allow_mf_prefix)
                final_key == IF allow_mf_prefix THEN TextInputPrefix \o found[2] ELSE found[2]
            IN IF NonEmpty(found[1])
               THEN <<TitleMatch(segment.start, segment.end, found[1], final_key,
                                 Len(segment_text_clean))>>
               ELSE <<>>
       ELSE IF NonEmpty(text_color)
       THEN ShiftMatches(FindNonOverlappingTitles(segment.text, mappings), segment.start)
       ELSE <<>>

RECURSIVE ValidMatches(_, _)
ValidMatches(segments, mappings) ==
    IF segments = <<>> THEN <<>>
    ELSE SegmentMatches(Head(segments), mappings) \o ValidMatches(Tail(segments), mappings)

\* f"{{ MERGEFIELD {key} }}"
MergefieldText(key) == <<"{", SPACE>> \o MergefieldWord \o <<SPACE>> \o key \o <<SPACE, "}">>

\* the loop of lines 253-259
RECURSIVE ApplyTitleMatches(_, _)
ApplyTitleMatches(result_text, final_matches) ==
    IF final_matches = <<>> THEN result_text
    ELSE ApplyTitleMatches(
             Slice(result_text, 0, Head(final_matches).start)
                 \o MergefieldText(Head(final_matches).key)
                 \o SliceFrom(result_text, Head(final_matches).end),
             Tail(final_matches))

\* paragraph.text
RECURSIVE JoinRunTexts(_)
JoinRunTexts(rs) == IF rs = <<>> THEN <<>> ELSE Head(rs).text \o JoinRunTexts(Tail(rs))

----------------------------------------------------------------------------
(* IF Betingelse transformation (src/src/components/find_fields.py) *)

\* regex \s
RegexSpace(c) == c \in {SPACE, TAB, NL, CR}

\* the character class [“”"]
IfQuoteClass == {LDQ, RDQ, DQ}

IfWord == <<"i", "f">>
BetingelseWord == <<"b", "e", "t", "i", "n", "g", "e", "l", "s", "e">>
ElseWord == <<"e", "l", "s", "e">>

\* the word w, letter case ignored ((?i)), at offset i of t
IgnoreCaseWordAt(t, i, w) == i + Len(w) <= Len(t) /\ Lower(Slice(t, i, i + Len(w))) = w

\* the offset behind the whitespace that starts at offset i: a greedy \s*
RECURSIVE SkipSpaces(_, _)
SkipSpaces(t, i) == IF i < Len(t) /\ RegexSpace(t[i + 1]) THEN SkipSpaces(t, i + 1) ELSE i

NoOffset == -1

\* the offset of the first quote character at or behind offset i, NoOffset if none
RECURSIVE NextIfQuote(_, _)
NextIfQuote(t, i) ==
    IF i >= Len(t) THEN NoOffset
    ELSE IF t[i + 1] \in IfQuoteClass THEN i ELSE NextIfQuote(t, i + 1)

\* [“”"]([^“”"]*)[“”"] at offset i: whether it matches, the group and the end
QuotedAt(t, i) ==
    IF i < Len(t) /\ t[i + 1] \in IfQuoteClass /\ NextIfQuote(t, i + 1) # NoOffset
    THEN [ok |-> TRUE, group |-> Slice(t, i + 1, NextIfQuote(t, i + 1)),
          end |-> NextIfQuote(t, i + 1) + 1]
    ELSE [ok |-> FALSE, group |-> <<>>, end |-> NoOffset]

\* the part of the pattern behind the key group, \s*(?=[“”"])...[“”"], at offset e
AfterKeyAt(t, e) ==
    LET first == QuotedAt(t, SkipSpaces(t, e))
        else_at == SkipSpaces(t, first.end)
        second == QuotedAt(t, SkipSpaces(t, else_at + Len(ElseWord)))
    IN IF first.ok /\ IgnoreCaseWordAt(t, else_at, ElseWord) /\ second.ok
       THEN [ok |-> TRUE, quote1 |-> first.group, quote2 |-> second.group, end |-> second.end]
       ELSE [ok |-> FALSE, quote1 |-> <<>>, quote2 |-> <<>>, end |-> NoOffset]

NoIfMatch == [ok |-> FALSE, key |-> <<>>, quote1 |-> <<>>, quote2 |-> <<>>, end |-> NoOffset]

\* the match of the pattern that starts at offset p, if any: the whitespace
\* groups take all they can, the one before the key gives back what is needed,
\* and the key (.+?) is the shortest text without a line break that lets the
\* rest match
IfMatchAt(t, p) ==
    LET if_at == SkipSpaces(t, p)
        betingelse_at == SkipSpaces(t, if_at + Len(IfWord))
        space_at == betingelse_at + Len(BetingelseWord)
        key_at == SkipSpaces(t, space_at)
        keys == {ke \in ((space_at + 1)..key_at) \X (0..Len(t)) :
                    /\ ke[1] < ke[2]
                    /\ \A i \in ke[1]..(ke[2] - 1) : t[i + 1] # NL
                    /\ AfterKeyAt(t, ke[2]).ok}
    IN IF /\ if_at > p /\ IgnoreCaseWordAt(t, if_at, IfWord)
          /\ betingelse_at > if_at + Len(IfWord) /\ IgnoreCaseWordAt(t, betingelse_at, BetingelseWord)
          /\ key_at > space_at
          /\ keys # {}
       THEN LET ke == CHOOSE ke \in keys :
                        \A other \in keys :
                            ke[1] > other[1] \/ (ke[1] = other[1] /\ ke[2] <= other[2])
                rest == AfterKeyAt(t, ke[2])
            IN [ok |-> TRUE, key |-> Slice(t, ke[1], ke[2]), quote1 |-> rest.quote1,
                quote2 |-> rest.quote2, end |-> rest.end]
       ELSE NoIfMatch

\* replace_match(match): f'{{ IF "J" = {key}" " {quote1}" " {quote2}" }}'
IfReplacement(m) ==
    <<"{", SPACE, "I", "F", SPACE, DQ, "J", DQ, SPACE, "=", SPACE>> \o m.key
        \o <<DQ, SPACE, DQ, SPACE>> \o m.quote1 \o <<DQ, SPACE, DQ, SPACE>> \o m.quote2
        \o <<DQ, SPACE, "}">>

\* pattern.sub(replace_match, text) from offset p on
RECURSIVE IfSubFrom(_, _)
IfSubFrom(t, p) ==
    IF p >= Len(t) THEN <<>>
    ELSE IF IfMatchAt(t, p).ok
         THEN IfReplacement(IfMatchAt(t, p)) \o IfSubFrom(t, IfMatchAt(t, p).end)
         ELSE <<t[p + 1]>> \o IfSubFrom(t, p + 1)

\* transform_text_with_if_betingelse(text, mappings)
TransformTextWithIfBetingelse(t, mappings) == IfSubFrom(t, 0)

----------------------------------------------------------------------------
(* find_change_sentences.py: DocumentRegexFinder.find_patterns *)

\* results[key] = value on a dict kept as <<key, value>> pairs in insertion order
DictSet(d, key, value) ==
    IF \E i \in 1..Len(d) : d[i][1] = key
    THEN [i \in 1..Len(d) |-> IF d[i][1] = key THEN <<key, value>> ELSE d[i]]
    ELSE Append(d, <<key, value>>)

DictHas(d, key) == \E i \in 1..Len(d) : d[i][1] = key

\* lines 90-106: the matches of one pattern, each full text reported once
RECURSIVE CollectHits(_, _, _)
CollectHits(hits, found, seen_full_texts) ==
    IF hits = <<>> THEN <<found, seen_full_texts>>
    ELSE LET full_text == Head(hits)
         IN IF full_text \in seen_full_texts
            THEN CollectHits(Tail(hits), found, seen_full_texts)
            ELSE CollectHits(Tail(hits), Append(found, [fullText |-> full_text, groups |-> <<>>]),
                             seen_full_texts \cup {full_text})

\* lines 85-106: the loop over patterns
RECURSIVE FindPatternsFrom(_, _, _)
FindPatternsFrom(patterns, results, seen_full_texts) ==
    IF patterns = <<>> THEN results
    ELSE LET pattern == Head(patterns)
             collected == CollectHits(pattern.hits, <<>>, seen_full_texts)
         IN FindPatternsFrom(Tail(patterns), DictSet(results, pattern.source, collected[1]),
                             collected[2])

FindPatterns(patterns) == FindPatternsFrom(patterns, <<>>, {})

----------------------------------------------------------------------------
(* process_docx_template (src/app.py): the run-level branch *)

\* a run of the uploaded document: its child elements and its font
TemplateRun(t, style) == [content |-> <<TextElement(t)>>, style |-> style]

\* run.text: the text of the w:t children, field codes are not part of it
RECURSIVE ElementsText(_)
ElementsText(content) ==
    IF content = <<>> THEN <<>>
    ELSE (IF Head(content).tag = "t" THEN Head(content).text ELSE <<>>)
             \o ElementsText(Tail(content))

\* para.text
RECURSIVE TemplateText(_)
TemplateText(rs) ==
    IF rs = <<>> THEN <<>> ELSE ElementsText(Head(rs).content) \o TemplateText(Tail(rs))

\* sorted(mappings.items(), key=lambda x: len(x[0]), reverse=True)
SortedMappings(mappings) ==
    LET sorted_titles == SortedTitles(TitlesOf(mappings))
    IN [i \in 1..Len(sorted_titles) |-> <<sorted_titles[i], KeyOf(mappings, sorted_titles[i])>>]

\* s.split(sep) for a separator that is not empty
RECURSIVE PySplit(_, _)
PySplit(s, sep) ==
    LET pos == Find(s, sep, 0)
    IN IF pos = -1 THEN <<s>>
       ELSE <<Slice(s, 0, pos)>> \o PySplit(SliceFrom(s, pos + Len(sep)), sep)

\* s.replace(old, new) for an old that is not empty
RECURSIVE PyReplace(_, _, _)
PyReplace(s, old, new) ==
    LET pos == Find(s, old, 0)
    IN IF pos = -1 THEN s
       ELSE Slice(s, 0, pos) \o new \o PyReplace(SliceFrom(s, pos + Len(old)), old, new)

\* lines 494-498: the preview, one title after the other, longest first
RECURSIVE DebugPreview(_, _)
DebugPreview(t, sorted_mappings) ==
    IF sorted_mappings = <<>> THEN t
    ELSE LET titel == Head(sorted_mappings)[1]
             nogle == Head(sorted_mappings)[2]
         IN DebugPreview(IF Find(t, titel, 0) # -1 THEN PyReplace(t, titel, MergefieldText(nogle))
                         ELSE t,
                         Tail(sorted_mappings))

\* para_text.strip().startswith("IF Betingelse ")
IfBetingelsePrefix ==
    <<"I", "F", SPACE, "B", "e", "t", "i", "n", "g", "e", "l", "s", "e", SPACE>>

IsConditionalParagraph(para_text) == StartsWith(Strip(para_text), IfBetingelsePrefix)

\* lines 529-538: bold, italic, underline are copied, font name, size and colour
\* where they are set; the highlight is not copied
CopyFormatting(style) ==
    [UnsetStyle EXCEPT !.bold = style.bold, !.italic = style.italic,
                       !.underline = style.underline,
                       !.font_name = IF Truthy(style.font_name) THEN style.font_name ELSE @,
                       !.font_size = IF Truthy(style.font_size) THEN style.font_size ELSE @,
                       !.color = IF Truthy(style.color) THEN style.color ELSE @]

\* lines 507-509: the first entry of sorted_mappings whose title is in run_text, or 0
FirstTitleIn(run_text, sorted_mappings) ==
    LET present == {k \in 1..Len(sorted_mappings) : Find(run_text, sorted_mappings[k][1], 0) # -1}
    IN IF present = {} THEN 0 ELSE CHOOSE k \in present : \A j \in present : k <= j

\* lines 501-541: one iteration of the loop over run_data, on the i-th run of
\* the paragraph rs
RewriteTemplateRun(rs, i, run_text, sorted_mappings) ==
    LET k == FirstTitleIn(run_text, sorted_mappings)
    IN IF Strip(run_text) = <<>> \/ k = 0 THEN rs
       ELSE LET titel == sorted_mappings[k][1]
                nogle == sorted_mappings[k][2]
                parts == PySplit(run_text, titel)
                \* run._element.clear_content(), run.text = parts[0], then the field
                rewritten == [rs[i] EXCEPT !.content =
                                 (IF parts[1] # <<>> THEN <<TextElement(parts[1])>> ELSE <<>>)
                                     \o CreateMergeFieldWithFormatting(nogle)]
                kept == [rs EXCEPT ![i] = rewritten]
            IN IF Len(parts) > 1 /\ parts[2] # <<>>
               THEN \* para.add_run(parts[1]) appends the new run to the paragraph
                    Append(kept, [content |-> <<TextElement(parts[2])>>,
                                  style |-> CopyFormatting(rs[i].style)])
               ELSE kept

----------------------------------------------------------------------------
(* Idle values of the state a specification does not use *)

NoApply == [applied |-> FALSE]

LocIdle ==
    /\ text = <<>> /\ search_text = <<>> /\ text_clean = <<>> /\ prev_clean = <<>>
    /\ norm_offset = -1 /\ orig_pos = -1 /\ occurrences = <<>>

ParaIdle ==
    /\ runs = <<>> /\ json_data = <<>> /\ all_matches = <<>>
    /\ full_paragraph_text = <<>> /\ resolved = <<>> /\ matches_in = <<>> /\ last = NoApply

GateIdle == found_text = <<>> /\ is_reasonable = FALSE

NoSynth == [routine |-> "none", keys |-> <<>>, primitives |-> <<>>]

FieldIdle == synth = NoSynth /\ field_runs = <<>> /\ fields = <<>>

NoRepl == [kind |-> "none", text |-> <<>>, allow_newlines_in_replacement |-> FALSE]

NoEdit == [applied |-> FALSE, first_run |-> NoRun, style_before |-> UnsetStyle, rtext |-> <<>>]

NoPattern == [source |-> "", compiles |-> FALSE, hits |-> <<>>]

RegexIdle ==
    /\ doc = <<>> /\ doc_before = <<>> /\ repl_arg = NoRepl /\ text_index = <<>>
    /\ match_list = <<>> /\ remaining = 0 /\ replaced = 0 /\ last_edit = NoEdit
    /\ pattern_arg = NoPattern

ColourIdle ==
    /\ colour_runs = <<>> /\ title_map = <<>> /\ colour_segments = <<>>
    /\ valid_matches = <<>> /\ kept_matches = <<>> /\ replaced_text = <<>>
    /\ paragraph_after = <<>>

IfIdle == if_text = <<>> /\ if_mappings = <<>> /\ if_result = <<>>

PatIdle ==
    regex_list = <<>> /\ compiled_patterns = <<>> /\ regex_pos = 0 /\ regex_results = <<>>

TplIdle ==
    /\ template_runs = <<>> /\ template_before = <<>> /\ template_mappings = <<>>
    /\ run_data = <<>> /\ run_pos = 0 /\ debug_para = <<>>

LateIdle == IfIdle /\ PatIdle /\ TplIdle

ExtIdle == GateIdle /\ FieldIdle /\ RegexIdle /\ ColourIdle /\ LateIdle

----------------------------------------------------------------------------
(* Normalizer and position mapper applied to bounded texts *)

NormAlphabet == {"a", SPACE, TAB, DQ, LDQ, SQ, RSQ}

InitNormalize ==
    /\ pc = "normalize"
    /\ text \in TextsOver(NormAlphabet, 0, MaxNormLen)
    /\ search_text = <<>> /\ text_clean = <<>> /\ prev_clean = <<>>
    /\ norm_offset = -1 /\ orig_pos = -1 /\ occurrences = <<>>
    /\ ParaIdle
    /\ ExtIdle

\* text_clean = _normalize_text_for_matching(text)
NormalizeText ==
    /\ pc = "normalize"
    /\ text_clean' = NormalizeTextForMatching(text)
    /\ pc' = "normalized"
    /\ UNCHANGED <<text, search_text, prev_clean, norm_offset, orig_pos, occurrences, paraVars, extVars>>

\* the normalizer applied to its own output
NormalizeAgain ==
    /\ pc = "normalized"
    /\ prev_clean' = text_clean
    /\ text_clean' = NormalizeTextForMatching(text_clean)
    /\ pc' = "renormalized"
    /\ UNCHANGED <<text, search_text, norm_offset, orig_pos, occurrences, paraVars, extVars>>

\* _map_normalized_to_original_position(text, text_clean, p) for any normalized offset p
MapPosition ==
    /\ pc = "normalized"
    /\ \E p \in 0..Len(text_clean) :
        /\ norm_offset' = p
        /\ orig_pos' = MapNormalizedToOriginalPosition(text, text_clean, p)
    /\ pc' = "mapped"
    /\ UNCHANGED <<text, search_text, text_clean, prev_clean, occurrences, paraVars, extVars>>

NextNormalize == NormalizeText \/ NormalizeAgain \/ MapPosition

SpecNormalize == InitNormalize /\ [][NextNormalize]_vars

----------------------------------------------------------------------------
(* Text locator applied to bounded haystacks and needles *)

LocAlphabet == {"a", "A", SPACE}

InitLocate ==
    /\ pc = "locate"
    /\ text \in TextsOver(LocAlphabet, 0, MaxTextLen)
    /\ search_text \in TextsOver(LocAlphabet, 1, MaxSearchLen)
    /\ text_clean = <<>> /\ prev_clean = <<>>
    /\ norm_offset = -1 /\ orig_pos = -1 /\ occurrences = <<>>
    /\ ParaIdle
    /\ ExtIdle

\* occurrences = _find_text_occurrences(text, search_text)
FindOccurrences ==
    /\ pc = "locate"
    /\ occurrences' = FindTextOccurrences(text, search_text)
    /\ text_clean' = NormalizeTextForMatching(text)
    /\ pc' = "located"
    /\ UNCHANGED <<text, search_text, prev_clean, norm_offset, orig_pos, paraVars, extVars>>

NextLocate == FindOccurrences

SpecLocate == InitLocate /\ [][NextLocate]_vars

----------------------------------------------------------------------------
(* _process_paragraph on a bounded paragraph and bounded replacement pairs *)

ParaAlphabet == {"a", "A", SPACE}

\* the ways to cut text t into at most n non-empty run texts
RECURSIVE Splits(_, _)
Splits(t, n) ==
    IF t = <<>> THEN {<<>>}
    ELSE IF n = 0 THEN {}
    ELSE UNION {{<<SubSeq(t, 1, k)>> \o rest : rest \in Splits(SubSeq(t, k + 1, Len(t)), n - 1)}
                    : k \in 1..Len(t)}

\* run i of a paragraph carries a style of its own
StyleOfRun(i) ==
    CASE i = 1 -> Bold
      [] i = 2 -> Italic
      [] i = 3 -> Marked
      [] OTHER -> Coloured

Paragraphs ==
    {[i \in 1..Len(sp) |-> Run(sp[i], StyleOfRun(i))] :
        sp \in UNION {Splits(t, MaxRuns) : t \in TextsOver(ParaAlphabet, 0, MaxParaLen)}}

Pair(original, replacement) == [originalText |-> original, replacementText |-> replacement]

ReplacementPairs ==
    {Pair(<<"a">>, <<"X">>),
     Pair(<<"a", "a">>, <<>>),
     Pair(<<"A">>, <<SPACE, "a", "a", SPACE>>),
     Pair(<<SPACE, "a">>, <<"}", DQ, DQ>>)}

\* the paragraph and the pair of the style-preservation example
ExampleRuns == <<Run(<<"A", "B">>, Bold), Run(<<"C", "D">>, Italic)>>
ExampleData == <<Pair(<<"B", "C">>, <<"X">>)>>

\* a paragraph and pairs for which a recorded phrase is gone when its turn comes
StaleRuns == <<Run(<<SPACE, "A", "A">>, Bold), Run(<<SPACE, "a", SPACE, SPACE>>, Italic)>>
StaleData == <<Pair(<<"A", "A">>, <<"X">>), Pair(<<SPACE>>, <<"X">>),
               Pair(<<SPACE, "A", SPACE>>, <<>>)>>

Init ==
    /\ pc = "process"
    /\ \/ /\ runs \in Paragraphs
          /\ json_data \in UNION {[1..n -> ReplacementPairs] : n \in 0..MaxPairs}
       \/ /\ runs = ExampleRuns
          /\ json_data = ExampleData
       \/ /\ runs = StaleRuns
          /\ json_data = StaleData
    /\ all_matches = <<>> /\ full_paragraph_text = <<>> /\ resolved = <<>> /\ matches_in = <<>>
    /\ last = NoApply
    /\ LocIdle
    /\ ExtIdle

\* lines 91-107 of _process_paragraph: the early returns and _find_all_matches
ProcessParagraph ==
    /\ pc = "process"
    /\ IF runs = <<>> \/ Strip(GetParagraphText(runs)) = <<>>
       THEN /\ pc' = "done"
            /\ UNCHANGED <<all_matches, full_paragraph_text>>
       ELSE /\ full_paragraph_text' = GetParagraphText(runs)
            /\ all_matches' = FindAllMatches(GetParagraphText(runs), json_data)
            /\ pc' = IF all_matches' = <<>> THEN "done" ELSE "matched"
    /\ UNCHANGED <<locVars, runs, json_data, resolved, matches_in, last, extVars>>

\* the loop of lines 118-122 given up at the first phrase that is not located
ApplyReplacementAborting ==
    /\ pc = "apply"
    /\ all_matches # <<>>
    /\ LET match == Head(all_matches)
           current_text == GetParagraphText(runs)
           actual_match_pos == FindActualMatchPosition(current_text, match.original_text,
                                                       match.start_pos)
           rewrites == /\ actual_match_pos # NoPosition
                       /\ actual_match_pos[2] <= Len(current_text)
       IN /\ runs' = IF rewrites
                     THEN Rebuild(runs, current_text, match,
                                  actual_match_pos[1], actual_match_pos[2])
                     ELSE runs
          /\ last' = [applied |-> TRUE, match |-> match, current_text |-> current_text,
                      runs |-> runs, rewritten |-> rewrites,
                      actual_match_pos |-> actual_match_pos]
    /\ LET located == FindActualMatchPosition(GetParagraphText(runs),
                              Head(all_matches).original_text, Head(all_matches).start_pos)
       IN IF located = NoPosition
          THEN all_matches' = all_matches /\ pc' = "done"
          ELSE /\ all_matches' = Tail(all_matches)
               /\ pc' = IF Tail(all_matches) = <<>> THEN "done" ELSE "apply"
    /\ UNCHANGED <<locVars, json_data, full_paragraph_text, resolved, matches_in, extVars>>

\* one iteration of the loop of lines 118-122: _apply_replacement(paragraph, match)
ApplyReplacement ==
    /\ pc = "apply"
    /\ all_matches # <<>>
    /\ LET match == Head(all_matches)
           current_text == GetParagraphText(runs)
           actual_match_pos == FindActualMatchPosition(current_text, match.original_text,
                                                       match.start_pos)
           rewrites == /\ actual_match_pos # NoPosition
                       /\ actual_match_pos[2] <= Len(current_text)
       IN /\ runs' = IF rewrites
                     THEN Rebuild(runs, current_text, match,
                                  actual_match_pos[1], actual_match_pos[2])
                     ELSE runs
          /\ last' = [applied |-> TRUE, match |-> match, current_text |-> current_text,
                      runs |-> runs, rewritten |-> rewrites,
                      actual_match_pos |-> actual_match_pos]
    /\ all_matches' = Tail(all_matches)
    /\ pc' = IF Tail(all_matches) = <<>> THEN "done" ELSE "apply"
    /\ UNCHANGED <<locVars, json_data, full_paragraph_text, resolved, matches_in, extVars>>

----------------------------------------------------------------------------
(* _process_paragraph: resolving and ordering the candidate matches *)

\* all_matches = _remove_overlapping_matches(all_matches)
RemoveOverlaps ==
    /\ pc = "matched"
    /\ matches_in' = all_matches
    /\ all_matches' = RemoveOverlappingMatches(all_matches)
    /\ resolved' = all_matches'
    /\ pc' = "resolved"
    /\ UNCHANGED <<locVars, runs, json_data, full_paragraph_text, last, extVars>>

\* all_matches.sort(key=lambda x: x.start_pos, reverse=True)
SortMatches ==
    /\ pc = "resolved"
    /\ all_matches' = SortByStartReverse(all_matches)
    /\ pc' = "apply"
    /\ UNCHANGED <<locVars, runs, json_data, full_paragraph_text, resolved, matches_in, last, extVars>>

\* candidate matches in any order: every span 0 <= start < end <= MaxPos; the
\* resolver reads only start_pos and end_pos
CandidateMatches ==
    {Match(<<"a">>, <<"X">>, sp[1], sp[2]) :
        sp \in {q \in (0..MaxPos) \X (0..MaxPos) : q[1] < q[2]}}

InitResolve ==
    /\ pc = "matched"
    /\ all_matches \in UNION {[1..n -> CandidateMatches] : n \in 0..MaxCands}
    /\ LocIdle
    /\ runs = <<>> /\ json_data = <<>>
    /\ full_paragraph_text = <<>> /\ resolved = <<>> /\ matches_in = <<>> /\ last = NoApply
    /\ ExtIdle

NextResolve == RemoveOverlaps \/ SortMatches

SpecResolve == InitResolve /\ [][NextResolve]_vars

----------------------------------------------------------------------------
(* _process_paragraph as a whole *)

Next == ProcessParagraph \/ RemoveOverlaps \/ SortMatches \/ ApplyReplacement

Spec == Init /\ [][Next]_vars

----------------------------------------------------------------------------
(* Similarity gate applied to bounded slices and needles *)

GateAlphabet == {"a", "A", SPACE}

\* the needle "formuegraensen" of 13 characters ("ae" is the one character ae)
Formuegraensen == <<"f", "o", "r", "m", "u", "e", "g", "r", "ae", "n", "s", "e", "n">>

\* a text of 20 characters that starts with the needle
FormueText == Formuegraensen \o <<SPACE, "e", "r", SPACE, "n", "a", "a">>

\* a needle of ten words
TenWords == <<"a", SPACE, "b", SPACE, "c", SPACE, "d", SPACE, "e", SPACE,
              "f", SPACE, "g", SPACE, "h", SPACE, "i", SPACE, "j">>

\* TenWords with its first k words replaced by the word "x"
TenWordsWithout(k) ==
    [i \in 1..Len(TenWords) |-> IF i % 2 = 1 /\ (i + 1) \div 2 <= k THEN "x" ELSE TenWords[i]]

InitGate ==
    /\ pc = "gate"
    /\ \/ /\ found_text \in TextsOver(GateAlphabet, 0, MaxFoundLen)
          /\ search_text \in TextsOver(GateAlphabet, 0, MaxNeedleLen)
       \/ /\ found_text \in {SubSeq(FormueText, 1, n) : n \in 10..Len(FormueText)}
          /\ search_text = Formuegraensen
       \/ /\ found_text \in {TenWordsWithout(k) : k \in 0..4}
          /\ search_text = TenWords
    /\ is_reasonable = FALSE
    /\ text = <<>> /\ text_clean = <<>> /\ prev_clean = <<>>
    /\ norm_offset = -1 /\ orig_pos = -1 /\ occurrences = <<>>
    /\ ParaIdle
    /\ FieldIdle
    /\ RegexIdle
    /\ ColourIdle
    /\ LateIdle

\* is_reasonable = _is_reasonable_match(found_text, search_text)
CheckReasonable ==
    /\ pc = "gate"
    /\ is_reasonable' = IsReasonableMatch(found_text, search_text)
    /\ pc' = "gated"
    /\ UNCHANGED <<locVars, paraVars, found_text, fieldVars, regexVars, colourVars, lateVars>>

NextGate == CheckReasonable

SpecGate == InitGate /\ [][NextGate]_vars

----------------------------------------------------------------------------
(* Field synthesis routines and the field extractor applied to their output *)

KeyAlphabet == {"k", "x", ":"}

Keys == TextsOver(KeyAlphabet, 1, MaxKeyLen)

InitField ==
    /\ pc = "field"
    /\ FieldIdle
    /\ LocIdle /\ ParaIdle /\ GateIdle /\ RegexIdle /\ ColourIdle /\ LateIdle

\* app.py process_paragraph, lines 299-301: a run is added and create_merge_field fills it
CallCreateMergeField ==
    /\ pc = "field"
    /\ \E key \in Keys :
        /\ synth' = [routine |-> "create_merge_field", keys |-> <<key>>,
                     primitives |-> CreateMergeField(key)]
        /\ field_runs' = <<CreateMergeField(key)>>
    /\ pc' = "synthesized"
    /\ UNCHANGED <<locVars, paraVars, gateVars, regexVars, colourVars, lateVars, fields>>

\* app.py line 524: create_merge_field_with_formatting(run._element, nogle, run)
CallCreateMergeFieldWithFormatting ==
    /\ pc = "field"
    /\ \E key \in Keys :
        /\ synth' = [routine |-> "create_merge_field_with_formatting", keys |-> <<key>>,
                     primitives |-> CreateMergeFieldWithFormatting(key)]
        /\ field_runs' = <<CreateMergeFieldWithFormatting(key)>>
    /\ pc' = "synthesized"
    /\ UNCHANGED <<locVars, paraVars, gateVars, regexVars, colourVars, lateVars, fields>>

\* app.py process_paragraph, lines 280-282: a run is added and create_if_field fills it
CallCreateIfField ==
    /\ pc = "field"
    /\ \E condition_key \in Keys, true_result_key \in Keys :
        /\ synth' = [routine |-> "create_if_field",
                     keys |-> <<condition_key, true_result_key>>,
                     primitives |-> CreateIfField(condition_key, true_result_key)]
        /\ field_runs' = <<CreateIfField(condition_key, true_result_key)>>
    /\ pc' = "synthesized"
    /\ UNCHANGED <<locVars, paraVars, gateVars, regexVars, colourVars, lateVars, fields>>

\* app.py lines 474-490: create_if_field_with_formatting(run._element, ..., run)
CallCreateIfFieldWithFormatting ==
    /\ pc = "field"
    /\ \E condition_key \in Keys, true_result_key \in Keys :
        /\ synth' = [routine |-> "create_if_field_with_formatting",
                     keys |-> <<condition_key, true_result_key>>,
                     primitives |-> CreateIfFieldWithFormatting(condition_key, true_result_key)]
        /\ field_runs' = <<CreateIfFieldWithFormatting(condition_key, true_result_key)>>
    /\ pc' = "synthesized"
    /\ UNCHANGED <<locVars, paraVars, gateVars, regexVars, colourVars, lateVars, fields>>

\* create_mergefield_element(field_name): the elements are returned, no run is added
CallCreateMergefieldElement ==
    /\ pc = "field"
    /\ \E field_name \in Keys :
        synth' = [routine |-> "create_mergefield_element", keys |-> <<field_name>>,
                  primitives |-> CreateMergefieldElement(field_name)]
    /\ pc' = "synthesized"
    /\ UNCHANGED <<locVars, paraVars, gateVars, regexVars, colourVars, lateVars, field_runs, fields>>

\* _insert_mergefield(paragraph, field_name)
CallInsertMergefield ==
    /\ pc = "field"
    /\ \E field_name \in Keys :
        /\ synth' = [routine |-> "_insert_mergefield", keys |-> <<field_name>>,
                     primitives |-> JoinRuns(InsertMergefield(field_name))]
        /\ field_runs' = InsertMergefield(field_name)
    /\ pc' = "synthesized"
    /\ UNCHANGED <<locVars, paraVars, gateVars, regexVars, colourVars, lateVars, fields>>

\* FieldConverter._add_merge_field(paragraph, field_name)
CallAddMergeField ==
    /\ pc = "field"
    /\ \E field_name \in Keys :
        /\ synth' = [routine |-> "_add_merge_field", keys |-> <<field_name>>,
                     primitives |-> AddMergeField(field_name)]
        /\ field_runs' = <<AddMergeField(field_name)>>
    /\ pc' = "synthesized"
    /\ UNCHANGED <<locVars, paraVars, gateVars, regexVars, colourVars, lateVars, fields>>

\* fields = WordFieldExtractor._process_runs_for_fields(the runs of the paragraph)
ExtractFields ==
    /\ pc = "synthesized"
    /\ field_runs # <<>>
    /\ fields' = ProcessRunsForFields(field_runs)
    /\ pc' = "extracted"
    /\ UNCHANGED <<locVars, paraVars, gateVars, regexVars, colourVars, lateVars, synth, field_runs>>

NextField ==
    \/ CallCreateMergeField \/ CallCreateMergeFieldWithFormatting
    \/ CallCreateIfField \/ CallCreateIfFieldWithFormatting
    \/ CallCreateMergefieldElement \/ CallInsertMergefield \/ CallAddMergeField
    \/ ExtractFields

SpecField == InitField /\ [][NextField]_vars

----------------------------------------------------------------------------
(* regex_replace_docx applied to bounded documents *)

DocLetters == <<"a", "b", "c", "d", "e", "f", "g", "h">>

\* the font of the run created as the id-th run of a document
RunStyle(id) == CASE id = 1 -> Bold [] id = 2 -> Marked [] id = 3 -> Italic [] OTHER -> Coloured

RECURSIVE RunCount(_)
RunCount(d) == IF d = <<>> THEN 0 ELSE Len(Head(d)) + RunCount(Tail(d))

\* the document of n letters in which letter i + 1 follows letter i in the same
\* run, in a new run of the same paragraph or in a new paragraph, as cuts[i] says
RECURSIVE LayOut(_, _, _, _)
LayOut(cuts, n, i, d) ==
    IF i > n THEN d
    ELSE LET cut == IF i = 1 THEN "para" ELSE cuts[i - 1]
             new_run == DocRun(RunCount(d) + 1, <<DocLetters[i]>>, RunStyle(RunCount(d) + 1))
         IN LayOut(cuts, n, i + 1,
                CASE cut = "para" -> Append(d, <<new_run>>)
                  [] cut = "run" -> [d EXCEPT ![Len(d)] = Append(@, new_run)]
                  [] OTHER -> [d EXCEPT ![Len(d)][Len(d[Len(d)])].text = Append(@, DocLetters[i])])

\* a document with a paragraph without runs and a run without text
SparseDoc ==
    << <<DocRun(1, <<"a">>, Bold)>>, <<>>,
       <<DocRun(2, <<>>, Marked), DocRun(3, <<"b", "c">>, Italic)>> >>

Documents ==
    UNION {{LayOut(cuts, n, 1, <<>>) : cuts \in [1..(n - 1) -> {"same", "run", "para"}]} :
              n \in 0..MaxDocLen}
        \cup {SparseDoc}

Repls ==
    {Repl("literal", <<>>, FALSE), Repl("literal", <<"X">>, FALSE),
     Repl("template", <<>>, FALSE), Repl("callable", <<>>, FALSE),
     Repl("literal", <<"X", CR, NL, "Y">>, FALSE), Repl("literal", <<"X", CR, NL, "Y">>, TRUE)}

\* the lists regex.finditer can yield on a flat text of n characters: at most
\* MaxMatches non-empty spans, ascending and not overlapping
MatchLists(n) ==
    {ms \in UNION {[1..k -> {sp \in (0..n) \X (0..n) : sp[1] < sp[2]}] : k \in 0..MaxMatches} :
        \A i \in 1..(Len(ms) - 1) : ms[i][2] <= ms[i + 1][1]}

\* a pattern string, whether re.compile accepts it, and the full texts its
\* finditer yields on the document text handed to find_patterns
Pattern(source, compiles, hits) == [source |-> source, compiles |-> compiles, hits |-> hits]

LetterPattern == Pattern("[ab]", TRUE, <<<<"a">>, <<"b">>, <<"a">>>>)
WordPattern == Pattern("b+", TRUE, <<<<"b">>>>)
OpenGroup == Pattern("(", FALSE, <<>>)
OpenClass == Pattern("[a", FALSE, <<>>)

Patterns == {LetterPattern, WordPattern, OpenGroup, OpenClass}

\* regex_replace_docx is called with one of the patterns ps
InitRegexWith(ps) ==
    /\ pc = "regex"
    /\ doc \in Documents
    /\ doc_before = doc
    /\ repl_arg \in Repls
    /\ pattern_arg \in ps
    /\ text_index = <<>> /\ match_list = <<>> /\ remaining = 0 /\ replaced = 0 /\ last_edit = NoEdit
    /\ LocIdle /\ ParaIdle /\ GateIdle /\ FieldIdle /\ ColourIdle /\ LateIdle

InitRegex == InitRegexWith({LetterPattern})

\* regex_replace_docx, lines 178-189: the index is built, the pattern compiles
\* and the matches are listed
FindMatches ==
    /\ pc = "regex"
    /\ pattern_arg.compiles
    /\ text_index' = BuildTextIndex(doc, 0)
    /\ \E ms \in MatchLists(Len(text_index')) :
        /\ match_list' = ms
        /\ remaining' = Len(ms)
        /\ pc' = IF ms = <<>> THEN "returned" ELSE "replacing"
    /\ UNCHANGED <<locVars, paraVars, gateVars, fieldVars, colourVars, lateVars, doc, doc_before, repl_arg, replaced,
                   last_edit, pattern_arg>>

\* one iteration of a loop that visits the matches in document order instead
ReplaceMatchForward ==
    /\ pc = "replacing"
    /\ remaining > 0
    /\ LET m == match_list[Len(match_list) - remaining + 1]
           spans == CollectAffectedRunSpans(text_index, m[1], m[2])
           rtext == ReplacementText(repl_arg, FlatText(text_index), m[1], m[2])
       IN IF spans = <<>>
          THEN /\ last_edit' = NoEdit
               /\ UNCHANGED <<doc, replaced>>
          ELSE /\ doc' = ReplaceInRuns(doc, spans, rtext)
               /\ replaced' = replaced + 1
               /\ last_edit' = [applied |-> TRUE, first_run |-> spans[1].run,
                                style_before |-> RunById(doc, spans[1].run).style,
                                rtext |-> rtext]
    /\ remaining' = remaining - 1
    /\ pc' = IF remaining = 1 THEN "returned" ELSE "replacing"
    /\ UNCHANGED <<locVars, paraVars, gateVars, fieldVars, colourVars, lateVars, doc_before, repl_arg, text_index, match_list,
                   pattern_arg>>

\* regex_replace_docx, lines 191-207: one iteration of the loop over reversed(matches)
ReplaceMatch ==
    /\ pc = "replacing"
    /\ remaining > 0
    /\ LET m == match_list[remaining]
           spans == CollectAffectedRunSpans(text_index, m[1], m[2])
           rtext == ReplacementText(repl_arg, FlatText(text_index), m[1], m[2])
       IN IF spans = <<>>
          THEN /\ last_edit' = NoEdit
               /\ UNCHANGED <<doc, replaced>>
          ELSE /\ doc' = ReplaceInRuns(doc, spans, rtext)
               /\ replaced' = replaced + 1
               /\ last_edit' = [applied |-> TRUE, first_run |-> spans[1].run,
                                style_before |-> RunById(doc, spans[1].run).style,
                                rtext |-> rtext]
    /\ remaining' = remaining - 1
    /\ pc' = IF remaining = 1 THEN "returned" ELSE "replacing"
    /\ UNCHANGED <<locVars, paraVars, gateVars, fieldVars, colourVars, lateVars, doc_before, repl_arg, text_index, match_list,
                   pattern_arg>>

NextRegex == FindMatches \/ ReplaceMatch

SpecRegex == InitRegex /\ [][NextRegex]_vars

----------------------------------------------------------------------------
(* Patterns that do not compile: process_document_with_regexes and regex_replace_docx *)

RegexLists == UNION {[1..n -> Patterns] : n \in 0..MaxPatterns}

InitCompile ==
    /\ pc = "compiling"
    /\ regex_list \in RegexLists
    /\ compiled_patterns = <<>> /\ regex_pos = 0 /\ regex_results = <<>>
    /\ LocIdle /\ ParaIdle /\ GateIdle /\ FieldIdle /\ RegexIdle /\ ColourIdle /\ IfIdle /\ TplIdle

\* process_document_with_regexes, lines 128-136: one iteration of the loop over
\* regex_list; re.error is caught and logged, the loop goes on
CompilePattern ==
    /\ pc = "compiling"
    /\ regex_pos < Len(regex_list)
    /\ LET regex_str == regex_list[regex_pos + 1]
       IN compiled_patterns' = IF regex_str.compiles THEN Append(compiled_patterns, regex_str)
                               ELSE compiled_patterns
    /\ regex_pos' = regex_pos + 1
    /\ UNCHANGED <<pc, earlyVars, ifVars, tplVars, regex_list, regex_results>>

\* process_document_with_regexes, lines 138-147: the compiled patterns are searched
CallFindPatterns ==
    /\ pc = "compiling"
    /\ regex_pos = Len(regex_list)
    /\ regex_results' = FindPatterns(compiled_patterns)
    /\ pc' = "found"
    /\ UNCHANGED <<earlyVars, ifVars, tplVars, regex_list, compiled_patterns, regex_pos>>

\* regex_replace_docx, line 179: re.compile raises re.error, nothing catches it
CompileRaises ==
    /\ pc = "regex"
    /\ ~pattern_arg.compiles
    /\ pc' = "raised"
    /\ UNCHANGED <<locVars, paraVars, extVars>>

InitPattern == InitCompile \/ InitRegexWith(Patterns)

NextPattern == CompilePattern \/ CallFindPatterns \/ FindMatches \/ ReplaceMatch \/ CompileRaises

SpecPattern == InitPattern /\ [][NextPattern]_vars

----------------------------------------------------------------------------
(* process_docx_template applied to one paragraph that is not an IF Betingelse paragraph *)

TemplateRunTexts ==
    {<<"a">>, <<"x", "a", "y">>, <<"a", "x", "a">>, <<"a", "x", "b">>, <<"a", "b">>, <<"y">>,
     <<SPACE>>}

TemplateParagraphs ==
    UNION {{[i \in 1..n |-> TemplateRun(ts[i], StyleOfRun(i))] : ts \in [1..n -> TemplateRunTexts]} :
              n \in 1..MaxTemplateRuns}

TemplateTitles == {<<"a">>, <<"b">>, <<"a", "b">>}

TemplateKey(title) ==
    CASE title = <<"a">> -> <<"k", "1">> [] title = <<"b">> -> <<"k", "2">> [] OTHER -> <<"k", "3">>

\* a dict: no title twice
TemplateMappings ==
    {[i \in 1..Len(ts) |-> <<ts[i], TemplateKey(ts[i])>>] :
        ts \in {f \in UNION {[1..n -> TemplateTitles] : n \in 0..MaxTitles} :
                   \A i, j \in 1..Len(f) : i # j => f[i] # f[j]}}

InitTemplate ==
    /\ pc = "template"
    /\ template_runs \in TemplateParagraphs
    /\ template_before = template_runs
    /\ template_mappings \in TemplateMappings
    /\ run_data = <<>> /\ run_pos = 0 /\ debug_para = <<>>
    /\ LocIdle /\ ParaIdle /\ GateIdle /\ FieldIdle /\ RegexIdle /\ ColourIdle /\ IfIdle /\ PatIdle

\* lines 404-406: a paragraph without visible text is left alone
SkipBlankParagraph ==
    /\ pc = "template"
    /\ Strip(TemplateText(template_runs)) = <<>>
    /\ pc' = "processed"
    /\ UNCHANGED <<earlyVars, ifVars, patVars, tplVars>>

\* lines 491-498: the run texts are collected and the preview is built
CollectRunData ==
    /\ pc = "template"
    /\ Strip(TemplateText(template_runs)) # <<>>
    /\ ~IsConditionalParagraph(TemplateText(template_runs))
    /\ run_data' = [i \in 1..Len(template_runs) |-> ElementsText(template_runs[i].content)]
    /\ debug_para' = DebugPreview(TemplateText(template_runs), SortedMappings(template_mappings))
    /\ pc' = "runs"
    /\ UNCHANGED <<earlyVars, ifVars, patVars, template_runs, template_before, template_mappings,
                   run_pos>>

\* lines 501-545: one iteration of the loop over run_data
ProcessTemplateRun ==
    /\ pc = "runs"
    /\ run_pos < Len(run_data)
    /\ template_runs' = RewriteTemplateRun(template_runs, run_pos + 1, run_data[run_pos + 1],
                                           SortedMappings(template_mappings))
    /\ run_pos' = run_pos + 1
    /\ pc' = IF run_pos + 1 = Len(run_data) THEN "processed" ELSE "runs"
    /\ UNCHANGED <<earlyVars, ifVars, patVars, template_before, template_mappings, run_data,
                   debug_para>>

NextTemplate == SkipBlankParagraph \/ CollectRunData \/ ProcessTemplateRun

SpecTemplate == InitTemplate /\ [][NextTemplate]_vars

----------------------------------------------------------------------------
(* replace_titles_with_mergefields_respecting_colors applied to bounded paragraphs *)

RunTexts ==
    {<<"a">>, <<SPACE, "A">>, <<"b">>, <<"M", "F", SPACE, "-", SPACE, "A">>, <<SPACE>>}

\* the colourings of a run: none (its shading fill "auto"), red text, green
\* shading, yellow highlight
NoColour(t) == ColourRun(t, Absent, Absent, AutoFill)
RedText(t) == ColourRun(t, <<"F", "F", "0", "0", "0", "0">>, Absent, Absent)
GreenShade(t) == ColourRun(t, Absent, Absent, GreenHighlight)
YellowMark(t) == ColourRun(t, Absent, <<"y", "e", "l", "l", "o", "w">>, Absent)

ColouredRuns == UNION {{NoColour(t), RedText(t), GreenShade(t), YellowMark(t)} : t \in RunTexts}

\* paragraphs whose green shading is written in lower case on red text
LowerGreen(t) == ColourRun(t, <<"F", "F", "0", "0", "0", "0">>, Absent, <<"0", "0", "f", "f", "0", "0">>)

LowerGreenParagraphs ==
    {<<LowerGreen(<<"a">>)>>, <<LowerGreen(<<SPACE, "A">>), LowerGreen(<<"b">>)>>,
     <<LowerGreen(<<"a">>), GreenShade(<<"b">>)>>}

TitlePool ==
    {<<"a">>, <<"a", "b">>, <<"M", "F", SPACE, "-", SPACE, "a">>,
     <<"m", "f", SPACE, "-", SPACE, "A", "B">>}

Kundetype == <<"K", "u", "n", "d", "e", "t", "y", "p", "e">>

MfKundetype == <<"M", "F", SPACE, "-", SPACE>> \o Kundetype

\* the paragraphs of one run "Kundetype" or "MF - Kundetype" in every colouring
KundetypeParagraphs ==
    {<<r>> : r \in UNION {{NoColour(t), RedText(t), GreenShade(t), YellowMark(t), LowerGreen(t)} :
                              t \in {Kundetype, MfKundetype}}}

\* the key a title maps to
KeyFor(title) ==
    CASE title = <<"a">> -> <<"k", "1">>
      [] title = <<"a", "b">> -> <<"k", "2">>
      [] title = <<"M", "F", SPACE, "-", SPACE, "a">> -> <<"k", "3">>
      [] title = Kundetype -> <<"k", "5">>
      [] title = MfKundetype -> <<"k", "6">>
      [] OTHER -> <<"k", "4">>

\* the mappings of at most MaxTitles titles, in every insertion order
Mappings ==
    {[i \in 1..Len(ts) |-> <<ts[i], KeyFor(ts[i])>>] :
        ts \in {ts \in UNION {[1..n -> TitlePool] : n \in 0..MaxTitles} :
                   \A i, j \in 1..Len(ts) : i # j => ts[i] # ts[j]}}

\* the mappings that hold "Kundetype", "MF - Kundetype" or both, in either order
KundetypeMappings ==
    {[i \in 1..Len(ts) |-> <<ts[i], KeyFor(ts[i])>>] :
        ts \in {<<Kundetype>>, <<MfKundetype>>, <<Kundetype, MfKundetype>>,
                <<MfKundetype, Kundetype>>}}

InitColour ==
    /\ pc = "colour"
    /\ \/ /\ colour_runs \in UNION {[1..n -> ColouredRuns] : n \in 0..MaxColourRuns}
                                \cup LowerGreenParagraphs
          /\ title_map \in Mappings
       \/ /\ colour_runs \in KundetypeParagraphs
          /\ title_map \in KundetypeMappings
    /\ colour_segments = <<>> /\ valid_matches = <<>> /\ kept_matches = <<>>
    /\ replaced_text = <<>>
    /\ paragraph_after = colour_runs
    /\ LocIdle /\ ParaIdle /\ GateIdle /\ FieldIdle /\ RegexIdle /\ LateIdle

\* replaced_text = replace_titles_with_mergefields_respecting_colors(paragraph, mappings)
ReplaceTitlesRespectingColors ==
    /\ pc = "colour"
    /\ LET segments == FindColorConsistentSegments(colour_runs)
           valid == SortByStartDescending(ValidMatches(segments, title_map))
           final_matches == KeepNonOverlapping(valid, <<>>)
       IN /\ colour_segments' = segments
          /\ valid_matches' = valid
          /\ kept_matches' = final_matches
          /\ replaced_text' = ApplyTitleMatches(JoinRunTexts(colour_runs), final_matches)
    /\ pc' = "coloured"
    /\ UNCHANGED <<locVars, paraVars, gateVars, fieldVars, regexVars, lateVars, colour_runs, title_map,
                   paragraph_after>>

\* paragraph.text = t: the content of the paragraph is cleared and one run
\* holding t is added
SetParagraphText(t) == <<ColourRun(t, Absent, Absent, Absent)>>

\* process_paragraph_with_color_aware_replacements(paragraph, mappings)
ProcessParagraphWithColorAwareReplacements ==
    /\ pc = "colour"
    /\ LET segments == FindColorConsistentSegments(colour_runs)
           valid == SortByStartDescending(ValidMatches(segments, title_map))
           final_matches == KeepNonOverlapping(valid, <<>>)
           modified_text == ApplyTitleMatches(JoinRunTexts(colour_runs), final_matches)
       IN /\ colour_segments' = segments
          /\ valid_matches' = valid
          /\ kept_matches' = final_matches
          /\ replaced_text' = modified_text
          /\ paragraph_after' = SetParagraphText(modified_text)
    /\ pc' = "rewritten"
    /\ UNCHANGED <<locVars, paraVars, gateVars, fieldVars, regexVars, lateVars, colour_runs, title_map>>

NextColour == ReplaceTitlesRespectingColors \/ ProcessParagraphWithColorAwareReplacements

SpecColour == InitColour /\ [][NextColour]_vars

----------------------------------------------------------------------------
(* transform_text_with_if_betingelse applied to texts put together from parts *)

StatusWord == <<"S", "t", "a", "t", "u", "s">>

IfBetingelse == <<"I", "f", SPACE>> \o BetingelseWord

\* what may stand before "If betingelse"
IfLeads == {<<>>, <<SPACE>>, <<"x", SPACE>>, <<"x">>}

\* what may stand between "betingelse" and the first quote
IfKeys ==
    {<<SPACE>> \o StatusWord, <<SPACE>> \o StatusWord \o <<SPACE>>, <<SPACE>>, <<SPACE, SPACE>>,
     StatusWord, <<SPACE, "a", DQ, "b">>, <<SPACE, "a", NL, "b">>}

IfFirstQuotes == {<<DQ, "j", "a", DQ>>, <<LDQ, "j", "a", RDQ>>}

IfMiddles == {<<SPACE, "E", "l", "s", "e", SPACE>>, ElseWord, <<SPACE, "o", "r", SPACE>>}

IfSecondQuotes == {<<DQ, "n", "e", "j", DQ>>, <<DQ, "n", "e", "j">>}

IfTails == {<<>>, <<SPACE, "y">>, <<SPACE, "i", "f", SPACE>> \o BetingelseWord \o <<SPACE, "b", DQ, "c", DQ>> \o ElseWord \o <<DQ, "d", DQ>>}

IfTexts ==
    {lead \o IfBetingelse \o key \o q1 \o mid \o q2 \o tail :
        lead \in IfLeads, key \in IfKeys, q1 \in IfFirstQuotes, mid \in IfMiddles,
        q2 \in IfSecondQuotes, tail \in IfTails}

StatKey == <<"s", "t", "a", "t", "-", "k", "e", "y">>

StatusMapping == <<<<StatusWord, StatKey>>>>

InitIf ==
    /\ pc = "if"
    /\ if_text \in IfTexts
    /\ if_mappings \in {<<>>, StatusMapping}
    /\ if_result = <<>>
    /\ LocIdle /\ ParaIdle /\ GateIdle /\ FieldIdle /\ RegexIdle /\ ColourIdle /\ PatIdle /\ TplIdle

\* if_result = transform_text_with_if_betingelse(if_text, if_mappings)
TransformIfBetingelse ==
    /\ pc = "if"
    /\ if_result' = TransformTextWithIfBetingelse(if_text, if_mappings)
    /\ pc' = "transformed"
    /\ UNCHANGED <<earlyVars, patVars, tplVars, if_text, if_mappings>>

NextIf == TransformIfBetingelse

SpecIf == InitIf /\ [][NextIf]_vars

----------------------------------------------------------------------------
(* Properties of the text locator (SpecLocate) *)

\* the offsets at which search_text occurs verbatim in text
VerbatimStarts ==
    {p \in 0..(Len(text) - Len(search_text)) :
        \A i \in 1..Len(search_text) : text[p + i] = search_text[i]}

OccurrenceSet == {occurrences[i] : i \in 1..Len(occurrences)}

\* C4: when the needle occurs verbatim in the haystack, _find_text_occurrences
\* returns exactly the spans of the verbatim occurrences, one per start offset,
\* and no span of the normalized search.
C4_ExactPrecedence ==
    (pc = "located" /\ VerbatimStarts # {}) =>
        /\ OccurrenceSet = {<<p, p + Len(search_text)>> : p \in VerbatimStarts}
        /\ Len(occurrences) = Cardinality(VerbatimStarts)

\* a haystack with two overlapping verbatim occurrences and a further
\* occurrence that only matches case-insensitively
C4_Witness ==
    /\ pc = "located"
    /\ Cardinality(VerbatimStarts) >= 2
    /\ \E p, q \in VerbatimStarts : p < q /\ q < p + Len(search_text)
    /\ \E p \in 0..(Len(text) - Len(search_text)) :
        /\ p \notin VerbatimStarts
        /\ Lower(Slice(text, p, p + Len(search_text))) = Lower(search_text)

\* C5: without a verbatim occurrence every returned span is the original
\* substring that produced the normalized hit: its normalized form equals the
\* normalized needle up to letter case.
C5_FuzzySpanIsTheHit ==
    (pc = "located" /\ VerbatimStarts = {}) =>
        \A i \in 1..Len(occurrences) :
            Lower(NormalizeTextForMatching(
                      Slice(text, occurrences[i][1], occurrences[i][2])))
                = Lower(NormalizeTextForMatching(search_text))

\* C7: every returned span satisfies 0 <= start < end <= len(haystack).
C7_SpanWithinText ==
    pc = "located" =>
        \A i \in 1..Len(occurrences) :
            /\ 0 <= occurrences[i][1]
            /\ occurrences[i][1] < occurrences[i][2]
            /\ occurrences[i][2] <= Len(text)

\* a span found by the normalized search in a haystack with a whitespace run
C7_Witness ==
    /\ pc = "located"
    /\ VerbatimStarts = {}
    /\ occurrences # <<>>
    /\ \E i \in 1..Len(text) : IsSpace(text[i])

----------------------------------------------------------------------------
(* Properties of the normalizer and the position mapper (SpecNormalize) *)

\* the original character at offset o produces a character of the normalized text
Produces(t, o) ==
    \/ ~IsSpace(t[o + 1])
    \/ /\ \E i \in 1..o : ~IsSpace(t[i])
       /\ \E i \in (o + 2)..Len(t) : ~IsSpace(t[i])

\* the normalized offset the original character at offset o produces: the
\* text up to and including o, closed by a letter, normalizes to that many
\* characters plus the character itself and the closing letter
NormalizedOffsetOf(t, o) ==
    Len(NormalizeTextForMatching(SubSeq(t, 1, o + 1) \o <<"a">>)) - 2

\* the offsets of the character cluster of offset o: o itself, or the
\* whitespace run o lies in
Cluster(t, o) ==
    IF ~IsSpace(t[o + 1]) THEN {o}
    ELSE {q \in 0..(Len(t) - 1) :
            \A k \in Min(o, q)..Max(o, q) : IsSpace(t[k + 1])}

\* C8: mapping the normalized offset an original offset produced lands in the
\* character cluster of that original offset.
C8_OffsetRoundTrip ==
    pc = "mapped" =>
        \A o \in 0..(Len(text) - 1) :
            (Produces(text, o) /\ NormalizedOffsetOf(text, o) = norm_offset)
                => orig_pos \in Cluster(text, o)

DoubleQuoteVariants == {DQ, LDQ, RDQ}
SingleQuoteVariants == {SQ, LSQ, RSQ}

\* the text with every quote glyph replaced by the straight glyph of its kind
CanonicalQuotes(t) ==
    [i \in 1..Len(t) |->
        IF t[i] \in DoubleQuoteVariants THEN DQ
        ELSE IF t[i] \in SingleQuoteVariants THEN SQ
        ELSE t[i]]

\* C9: every quote variant is replaced by one canonical quote character, so a
\* text and the same text written with other quote glyph variants normalize
\* to the same string.
C9_QuoteVariantsUnified ==
    pc = "normalized" =>
        /\ \A i \in 1..Len(text_clean) :
            text_clean[i] \notin (DoubleQuoteVariants \cup SingleQuoteVariants) \ {DQ, SQ}
        /\ text_clean = NormalizeTextForMatching(CanonicalQuotes(text))

\* C10: normalizing a normalized text changes nothing.
C10_NormalizeIdempotent ==
    pc = "renormalized" => text_clean = prev_clean

\* a text the first normalization changed (whitespace stripped and collapsed),
\* normalized a second time
C10_Witness ==
    /\ pc = "renormalized"
    /\ prev_clean # text
    /\ \E i \in 1..Len(text) : IsSpace(text[i])
    /\ prev_clean # <<>>

----------------------------------------------------------------------------
(* Properties of the overlap resolver (SpecResolve) *)

NonOverlapping(ms) ==
    \A i, j \in 1..Len(ms) :
        i # j => (ms[i].end_pos <= ms[j].start_pos \/ ms[j].end_pos <= ms[i].start_pos)

\* C6: the list _remove_overlapping_matches returns is pairwise
\* non-overlapping, and so is the list applied after the descending re-sort.
C6_ResolvedNonOverlapping ==
    /\ pc = "resolved" => NonOverlapping(all_matches)
    /\ pc = "apply" => (NonOverlapping(all_matches) /\ NonOverlapping(resolved))

\* overlapping candidates went in, some were dropped, several were kept and re-sorted
C6_Witness ==
    /\ pc = "apply"
    /\ Len(all_matches) >= 2
    /\ Len(all_matches) < MaxCands
    /\ all_matches # resolved

----------------------------------------------------------------------------
(* Properties of the style-preserving rewriter (Spec) *)

\* the style of every character of the paragraph, in text order
RECURSIVE CharStyles(_)
CharStyles(rs) ==
    IF rs = <<>> THEN <<>>
    ELSE [i \in 1..Len(Head(rs).text) |-> ExtractRunStyle(Head(rs))] \o CharStyles(Tail(rs))

\* the latest _apply_replacement call rewrote the paragraph for a span [start, end)
Rewritten == last.applied /\ last.rewritten

\* C1: after _apply_replacement rewrote the paragraph for the span
\* [start, end), every character outside the span carries the style it had
\* before; runs [("AB", bold), ("CD", italic)] with "BC" replaced by "X" become
\* [("A", bold), ("X", bold), ("D", italic)].
C1_OutsideSpanKeepsStyle ==
    (Rewritten /\ last.actual_match_pos[1] <= last.actual_match_pos[2]) =>
        LET before == CharStyles(last.runs)
            after  == CharStyles(runs)
            start  == last.actual_match_pos[1]
            end    == last.actual_match_pos[2]
            shift  == Len(FixReplacementText(last.match.replacement_text)) - (end - start)
        IN /\ \A i \in 1..start : after[i] = before[i]
           /\ \A i \in (end + 1)..Len(before) : after[i + shift] = before[i]
           /\ (last.runs = ExampleRuns /\ last.match.original_text = <<"B", "C">>)
                => runs = <<Run(<<"A">>, Bold), Run(<<"X">>, Bold), Run(<<"D">>, Italic)>>

\* the non-empty texts of a list of texts, in order
RECURSIVE NonEmptyTexts(_)
NonEmptyTexts(ts) ==
    IF ts = <<>> THEN <<>>
    ELSE (IF Head(ts) = <<>> THEN <<>> ELSE <<Head(ts)>>) \o NonEmptyTexts(Tail(ts))

\* C2: a successful _apply_replacement leaves at most three runs: the text
\* before the match, the format-fixed replacement, the text after the match,
\* an empty part omitted; their concatenation is
\* current_text[:start] + replacement + current_text[end:].
C2_AtMostThreeRuns ==
    Rewritten =>
        LET start == last.actual_match_pos[1]
            end   == last.actual_match_pos[2]
            parts == <<Slice(last.current_text, 0, start),
                       FixReplacementText(last.match.replacement_text),
                       SliceFrom(last.current_text, end)>>
        IN /\ Len(runs) <= 3
           /\ [i \in 1..Len(runs) |-> runs[i].text] = NonEmptyTexts(parts)
           /\ GetParagraphText(runs) = parts[1] \o parts[2] \o parts[3]

\* a rewrite in the middle of a paragraph of several runs, with a replacement
\* text the format fix changed
C2_Witness ==
    /\ Rewritten
    /\ Len(last.runs) >= 2
    /\ Len(runs) = 3
    /\ FixReplacementText(last.match.replacement_text) # last.match.replacement_text

\* every pair that produced matches was located by the exact search
AllExact ==
    \A i \in 1..Len(json_data) :
        \/ json_data[i].originalText = <<>>
        \/ FindExactMatches(full_paragraph_text, json_data[i].originalText) # <<>>
        \/ FindTextOccurrences(full_paragraph_text, json_data[i].originalText) = <<>>

\* the original text with each span replaced by its format-fixed replacement,
\* stitched left to right from offset from on; spans ascending by start
RECURSIVE Stitch(_, _, _)
Stitch(original, spans, from) ==
    IF spans = <<>> THEN SliceFrom(original, from)
    ELSE Slice(original, from, Head(spans).start_pos)
         \o FixReplacementText(Head(spans).replacement_text)
         \o Stitch(original, Tail(spans), Head(spans).end_pos)

\* C3: the resolved matches are applied in descending start order on the
\* recomputed text; when all were located by exact search, a match about to
\* be applied still has its original_text at [start_pos, end_pos) and an
\* unchanged text to the left of end_pos, it is re-located at its recorded
\* offset, and after the pass the text is the original text with each
\* resolved span replaced by its (format-fixed) replacement.
C3_RightToLeft ==
    /\ pc = "apply" =>
        \A i, j \in 1..Len(all_matches) :
            i < j => all_matches[i].start_pos > all_matches[j].start_pos
    /\ (pc = "apply" /\ AllExact) =>
        LET match == Head(all_matches)
            current_text == GetParagraphText(runs)
        IN /\ Slice(current_text, match.start_pos, match.end_pos) = match.original_text
           /\ Slice(current_text, 0, match.end_pos)
                = Slice(full_paragraph_text, 0, match.end_pos)
    /\ (last.applied /\ AllExact) =>
        /\ last.rewritten
        /\ last.actual_match_pos = <<last.match.start_pos, last.match.end_pos>>
    /\ (pc = "done" /\ resolved # <<>> /\ AllExact) =>
        GetParagraphText(runs) = Stitch(full_paragraph_text, SortByStart(resolved), 0)

\* a finished pass of several exact matches, an overlapping candidate
\* dropped, the text length changed
C3_Witness ==
    /\ pc = "done"
    /\ AllExact
    /\ Len(resolved) >= 2
    /\ Len(FindAllMatches(full_paragraph_text, json_data)) > Len(resolved)
    /\ Len(GetParagraphText(runs)) # Len(full_paragraph_text)

----------------------------------------------------------------------------
(* Properties of the similarity gate (SpecGate) *)

\* the maximal whitespace-free stretches <<first, last>> of s
WordSpans(s) ==
    {sp \in (1..Len(s)) \X (1..Len(s)) :
        /\ sp[1] <= sp[2]
        /\ \A i \in sp[1]..sp[2] : ~IsSpace(s[i])
        /\ sp[1] = 1 \/ IsSpace(s[sp[1] - 1])
        /\ sp[2] = Len(s) \/ IsSpace(s[sp[2] + 1])}

WordAt(s, sp) == Lower(SubSeq(s, sp[1], sp[2]))

\* the words of the needle that occur, case-insensitively, among the slice's words
WordsPresent ==
    {sp \in WordSpans(search_text) :
        \E fp \in WordSpans(found_text) : WordAt(found_text, fp) = WordAt(search_text, sp)}

\* C11: _is_reasonable_match accepts iff the length ratio len(found)/len(needle)
\* lies in [0.8, 1.2] and at least 70% of the needle's whitespace-delimited
\* words occur case-insensitively among the slice's words (a needle without
\* characters or without words has no ratio and is rejected); a 13-character
\* needle against a 20-character slice is rejected.
C11_SimilarityGate ==
    pc = "gated" =>
        /\ is_reasonable <=>
              /\ Len(search_text) > 0
              /\ 8 * Len(search_text) <= 10 * Len(found_text)
              /\ 10 * Len(found_text) <= 12 * Len(search_text)
              /\ WordSpans(search_text) # {}
              /\ 10 * Cardinality(WordsPresent) >= 7 * Cardinality(WordSpans(search_text))
        /\ (Len(search_text) = 13 /\ Len(found_text) = 20) => ~is_reasonable

\* the 13-character needle against the 20-character slice, rejected although
\* the needle's one word is not the reason: the slice contains it
C11_Witness ==
    /\ pc = "gated"
    /\ search_text = Formuegraensen /\ found_text = FormueText
    /\ ~is_reasonable

----------------------------------------------------------------------------
(* Properties of the style lookup (Spec) *)

\* the number of characters in the runs before run i
RECURSIVE TextLenBefore(_, _)
TextLenBefore(rs, i) ==
    IF i <= 1 THEN 0 ELSE TextLenBefore(rs, i - 1) + Len(rs[i - 1].text)

\* the runs whose cumulative text range contains offset p
CoveredBy(rs, p) ==
    {i \in 1..Len(rs) :
        TextLenBefore(rs, i) <= p /\ p < TextLenBefore(rs, i) + Len(rs[i].text)}

\* the style in effect at offset p: that of the covering run, of the last run
\* when no run covers p, the empty style when there is no run
StyleInEffect(rs, p) ==
    IF CoveredBy(rs, p) # {} THEN rs[CHOOSE i \in CoveredBy(rs, p) : TRUE].style
    ELSE IF rs # <<>> THEN rs[Len(rs)].style
    ELSE UnsetStyle

\* C12: the replacement text _apply_replacement inserts carries the style of
\* the run whose cumulative text range contains the re-located match start in
\* the paragraph before the edit; _get_style_at_position returns the last
\* run's style for an offset no run covers and the empty style for a
\* paragraph without runs.
C12_ReplacementStyle ==
    /\ \A p \in 0..(Len(GetParagraphText(runs)) + 1) :
            GetStyleAtPosition(runs, p) = StyleInEffect(runs, p)
    /\ Rewritten =>
            LET start == last.actual_match_pos[1]
                fixed == FixReplacementText(last.match.replacement_text)
            IN \A i \in (start + 1)..(start + Len(fixed)) :
                   CharStyles(runs)[i] = StyleInEffect(last.runs, start)

\* a replacement was inserted for a match that starts in the second run
C12_Witness ==
    /\ Rewritten
    /\ Len(last.runs) = 2
    /\ last.actual_match_pos[1] >= Len(last.runs[1].text)
    /\ FixReplacementText(last.match.replacement_text) # <<>>
    /\ Len(runs) >= 2

----------------------------------------------------------------------------
(* Properties of the abandoned span (Spec) *)

\* the latest _apply_replacement call did not locate its phrase
NotLocated == last.applied /\ last.actual_match_pos = NoPosition

\* C13: when _find_actual_match_position locates the recorded phrase by none
\* of its three strategies, _apply_replacement returns with the paragraph's
\* runs (texts and styles) as they were, and the pass goes on: it is in its
\* loop exactly as long as a match is left, so it ends with every match tried.
C13_NotFoundLeavesParagraph ==
    /\ NotLocated => runs = last.runs
    /\ last.applied => (pc = "apply" <=> all_matches # <<>>)
    /\ last.applied => (pc = "done" <=> all_matches = <<>>)

\* a phrase was not located while another match of the pass is still to come
C13_Witness ==
    /\ NotLocated
    /\ pc = "apply"
    /\ all_matches # <<>>
    /\ runs # <<>>

----------------------------------------------------------------------------
(* Properties of the field synthesis and of the extractor (SpecField) *)

MergeFieldRoutines ==
    {"create_merge_field", "create_merge_field_with_formatting",
     "create_mergefield_element", "_insert_mergefield", "_add_merge_field"}

IfFieldRoutines == {"create_if_field", "create_if_field_with_formatting"}

\* " MERGEFIELD " + k + " "
SpacedInstruction(k) ==
    <<SPACE, "M", "E", "R", "G", "E", "F", "I", "E", "L", "D", SPACE>> \o k \o <<SPACE>>

\* C14: a routine that synthesizes a MERGEFIELD for key k emits begin,
\* instruction text, an optional separator and end, in that order, and the
\* instruction text is " MERGEFIELD " + k + " ".
C14_MergeFieldPrimitives ==
    synth.routine \in MergeFieldRoutines =>
        LET p == synth.primitives
            n == Len(p)
        IN /\ n \in {3, 4}
           /\ p[1] = FldChar("begin")
           /\ p[2] = InstrText(SpacedInstruction(synth.keys[1]))
           /\ n = 4 => p[3] = FldChar("separate")
           /\ p[n] = FldChar("end")

\* begin markers minus end markers among the first n primitives
Depth(p, n) ==
    Cardinality({i \in 1..n : p[i] = FldChar("begin")})
        - Cardinality({i \in 1..n : p[i] = FldChar("end")})

\* C15: create_if_field(condition_key, true_result_key) appends begin,
\* ' IF "J" = "', begin, ' MERGEFIELD <condition_key> ', end, '" "', begin,
\* ' MERGEFIELD <true_result_key> ', end, '"', end; begin and end are balanced,
\* the nesting depth is at least 1 from the first begin up to the last end and
\* never more than 2.
C15_IfFieldPrimitives ==
    synth.routine \in IfFieldRoutines =>
        LET p == synth.primitives
        IN /\ p = <<FldChar("begin"),
                    InstrText(<<SPACE, "I", "F", SPACE, DQ, "J", DQ, SPACE, "=", SPACE, DQ>>),
                    FldChar("begin"), InstrText(SpacedInstruction(synth.keys[1])),
                    FldChar("end"),
                    InstrText(<<DQ, SPACE, DQ>>),
                    FldChar("begin"), InstrText(SpacedInstruction(synth.keys[2])),
                    FldChar("end"),
                    InstrText(<<DQ>>),
                    FldChar("end")>>
           /\ Depth(p, Len(p)) = 0
           /\ \A n \in 1..(Len(p) - 1) : Depth(p, n) >= 1
           /\ \A n \in 1..Len(p) : Depth(p, n) <= 2

\* create_if_field was called with two different keys
C15_Witness ==
    /\ pc = "synthesized"
    /\ synth.routine = "create_if_field"
    /\ synth.keys[1] # synth.keys[2]
    /\ Len(field_runs) = 1 /\ Len(field_runs[1]) = 11

\* { IF "J" = "{ MERGEFIELD cond }" "{ MERGEFIELD true }" }
IfFieldText(cond, true_key) ==
    <<"{", SPACE, "I", "F", SPACE, DQ, "J", DQ, SPACE, "=", SPACE, DQ, "{">>
        \o SpacedInstruction(cond) \o <<"}", DQ, SPACE, DQ, "{">>
        \o SpacedInstruction(true_key) \o <<"}", DQ, SPACE, "}">>

\* C16: reading the run that create_if_field(cond, true) filled with
\* _process_runs_for_fields yields exactly one top-level field, of type IF,
\* with full_text { IF "J" = "{ MERGEFIELD cond }" "{ MERGEFIELD true }" }.
C16_IfFieldRoundTrip ==
    (pc = "extracted" /\ synth.routine = "create_if_field") =>
        /\ Len(fields) = 1
        /\ fields[1].type = <<"I", "F">>
        /\ fields[1].full_text = IfFieldText(synth.keys[1], synth.keys[2])

----------------------------------------------------------------------------
(* Properties of regex_replace_docx (SpecRegex) *)

\* the text of a paragraph: the texts of its runs joined
RECURSIVE ParagraphText(_)
ParagraphText(para) == IF para = <<>> THEN <<>> ELSE Head(para).text \o ParagraphText(Tail(para))

\* the matches the loop has applied so far: the last ones of the list
AppliedMatches == {k \in 1..Len(match_list) : k > remaining}

\* the flat offset of the first character of match k that belongs to a run
FirstRunOffset(k) ==
    LET inside == {j \in match_list[k][1]..(match_list[k][2] - 1) : text_index[j + 1].run # NoRun}
    IN CHOOSE j \in inside : \A j2 \in inside : j <= j2

\* the original text of paragraph p_idx from flat offset i on, with every
\* character of an applied match removed and the replacement of the match put
\* where its first run character was
RECURSIVE ExpectedTextFrom(_, _)
ExpectedTextFrom(p_idx, i) ==
    IF i >= Len(text_index) THEN <<>>
    ELSE LET cell == text_index[i + 1]
             hit == {k \in AppliedMatches : match_list[k][1] <= i /\ i < match_list[k][2]}
             piece ==
                 IF cell.run = NoRun \/ cell.p_idx # p_idx THEN <<>>
                 ELSE IF hit = {} THEN <<cell.char>>
                 ELSE LET k == CHOOSE k \in hit : TRUE
                      IN IF i = FirstRunOffset(k)
                         THEN ReplacementText(repl_arg, FlatText(text_index),
                                              match_list[k][1], match_list[k][2])
                         ELSE <<>>
         IN piece \o ExpectedTextFrom(p_idx, i + 1)

\* C17: every match is resolved against the index built from the document as it
\* was before any edit, and after the matches have been applied from the last
\* to the first, each paragraph's text is its original text with every matched
\* character removed and each match's replacement put at the position of the
\* match's first run character; this holds after every iteration of the loop,
\* for the matches applied so far.
C17_ReverseOrderKeepsText ==
    pc \in {"replacing", "returned"} =>
        /\ text_index = BuildTextIndex(doc_before, 0)
        /\ Len(doc) = Len(doc_before)
        /\ \A p \in 1..Len(doc) : ParagraphText(doc[p]) = ExpectedTextFrom(p - 1, 0)

\* the runs match k touches
RunsOfMatch(k) ==
    {text_index[j + 1].run : j \in match_list[k][1]..(match_list[k][2] - 1)} \ {NoRun}

\* two matches that touch the same run, the later of which spans a paragraph
\* boundary, have both been applied
C17_Witness ==
    /\ pc = "returned"
    /\ replaced = 2
    /\ Len(match_list) = 2
    /\ RunsOfMatch(1) \cap RunsOfMatch(2) # {}
    /\ \E j \in match_list[2][1]..(match_list[2][2] - 1) : text_index[j + 1].run = NoRun
    /\ Cardinality(RunsOfMatch(2)) >= 2
    /\ doc # doc_before

\* C18: after a match has been processed, whether it spans the separator between
\* two paragraphs or not and whether the replacement is a plain text, a template
\* with a group reference or a callable, the text of the first affected run
\* holds no paragraph separator character.
C18_NoSeparatorWritten ==
    last_edit.applied =>
        LET first_run == RunById(doc, last_edit.first_run)
        IN \A i \in 1..Len(first_run.text) : first_run.text[i] # PARA_SEP

\* C19: after _replace_in_runs has written the replacement into the first
\* affected run, every style attribute of that run, its highlight colour
\* included, has the value it had before the call.
C19_FirstRunStylePreserved ==
    last_edit.applied =>
        \A k \in StyleKeys : RunById(doc, last_edit.first_run).style[k] = last_edit.style_before[k]

----------------------------------------------------------------------------
(* Properties of the colour-aware title replacement (SpecColour) *)

HighlightedSegments ==
    {i \in 1..Len(colour_segments) : NonEmpty(colour_segments[i].colors[2])}

IsGreen(segment) == Upper(segment.colors[2]) = GreenHighlight

MappedTitles == {title_map[i][1] : i \in 1..Len(title_map)}

\* the titles the trimmed text of the segment equals, letter case ignored
EqualTitles(segment) == {t \in MappedTitles : Lower(t) = Lower(Strip(segment.text))}

\* the titles that are "MF - ", in any letter case, followed by the trimmed
\* text of the segment, letter case ignored
MfTitles(segment) ==
    {t \in MappedTitles :
        /\ Len(t) >= 5
        /\ Lower(SubSeq(t, 1, 5)) = MfPrefix
        /\ Lower(SubSeq(t, 6, Len(t))) = Lower(Strip(segment.text))}

\* the replacements of the span of the segment
ReplacementsOf(ms, segment) ==
    {i \in 1..Len(ms) : ms[i].start = segment.start /\ ms[i].end = segment.end}

\* C20: a highlighted segment is replaced iff its trimmed text equals a
\* mapping title, letter case ignored, or, for the highlight 00FF00 only, equals
\* what follows the "MF - " prefix of a mapping title; the key put into the
\* merge field is "TextInput:" followed by the key of such a title when the
\* highlight is 00FF00 and the key itself for any other highlight, a title
\* that equals the text going before a prefixed one.
C20_HighlightedSegmentPolicy ==
    pc = "coloured" =>
        \A i \in HighlightedSegments :
            LET segment == colour_segments[i]
                titles == IF EqualTitles(segment) # {} THEN EqualTitles(segment)
                          ELSE IF IsGreen(segment) THEN MfTitles(segment) ELSE {}
                keys == {(IF IsGreen(segment) THEN TextInputPrefix ELSE <<>>)
                             \o KeyOf(title_map, t) : t \in titles}
            IN /\ ReplacementsOf(kept_matches, segment) # {} <=> titles # {}
               /\ Cardinality(ReplacementsOf(kept_matches, segment)) <= 1
               /\ \A m \in ReplacementsOf(kept_matches, segment) :
                    /\ kept_matches[m].key \in keys
                    /\ replaced_text # JoinRunTexts(colour_runs)

\* a green segment replaced through the prefix rule beside a segment of
\* another highlight that is replaced with the bare key
C20_Witness ==
    /\ pc = "coloured"
    /\ \E i \in HighlightedSegments :
        /\ IsGreen(colour_segments[i])
        /\ EqualTitles(colour_segments[i]) = {}
        /\ \E m \in ReplacementsOf(kept_matches, colour_segments[i]) :
             kept_matches[m].key = TextInputPrefix \o KeyOf(title_map, kept_matches[m].title)
    /\ \E i \in HighlightedSegments :
        /\ ~IsGreen(colour_segments[i])
        /\ \E m \in ReplacementsOf(kept_matches, colour_segments[i]) :
             kept_matches[m].key = KeyOf(title_map, kept_matches[m].title)

OneRunParagraph(t) == Len(colour_runs) = 1 /\ colour_runs[1].text = t

GreenRun(run) == NonEmpty(GetRunColors(run)[2]) /\ Upper(GetRunColors(run)[2]) = GreenHighlight

\* C21 as stated: a paragraph of one run "MF - Kundetype" highlighted 00FF00,
\* with a mapping that holds the title "Kundetype", becomes the merge field of
\* "TextInput:" followed by the key of "Kundetype"; without the 00FF00
\* highlight nothing is matched.
C21_MfPrefixScenario ==
    (pc = "coloured" /\ OneRunParagraph(MfKundetype) /\ Kundetype \in MappedTitles) =>
        IF GreenRun(colour_runs[1])
        THEN replaced_text = MergefieldText(TextInputPrefix \o KeyOf(title_map, Kundetype))
        ELSE kept_matches = <<>>

\* C21 amended: a paragraph of one run "Kundetype" highlighted 00FF00, with a
\* mapping that holds the title "MF - Kundetype" and no other title equal to
\* "Kundetype" or "MF - Kundetype", letter case ignored, becomes the merge
\* field of "TextInput:" followed by the key of "MF - Kundetype"; without the
\* 00FF00 highlight that title matches nothing.
C21_MfPrefixScenarioAmended ==
    (/\ pc = "coloured" /\ OneRunParagraph(Kundetype)
     /\ MfKundetype \in MappedTitles
     /\ \A t \in MappedTitles \ {MfKundetype} :
            Lower(t) \notin {Lower(Kundetype), Lower(MfKundetype)}) =>
        IF GreenRun(colour_runs[1])
        THEN replaced_text = MergefieldText(TextInputPrefix \o KeyOf(title_map, MfKundetype))
        ELSE \A m \in 1..Len(kept_matches) : kept_matches[m].title # MfKundetype

\* the green run "Kundetype" has been replaced through the title "MF - Kundetype"
C21_Witness ==
    /\ pc = "coloured"
    /\ OneRunParagraph(Kundetype)
    /\ GreenRun(colour_runs[1])
    /\ TitlesOf(title_map) = <<MfKundetype>>
    /\ Len(kept_matches) = 1
    /\ kept_matches[1].title = MfKundetype

\* the colours of the run that holds the character at offset i of the text of rs
RECURSIVE ColoursAt(_, _)
ColoursAt(rs, i) ==
    IF i < Len(Head(rs).text) THEN GetRunColors(Head(rs))
    ELSE ColoursAt(Tail(rs), i - Len(Head(rs).text))

\* how far the replacements in front of offset i have moved the character at i
RECURSIVE ShiftBefore(_, _)
ShiftBefore(ms, i) ==
    IF ms = <<>> THEN 0
    ELSE (IF Head(ms).end <= i
          THEN Len(MergefieldText(Head(ms).key)) - (Head(ms).end - Head(ms).start)
          ELSE 0) + ShiftBefore(Tail(ms), i)

OutsideReplacedSpans ==
    {i \in 0..(Len(JoinRunTexts(colour_runs)) - 1) :
        \A m \in 1..Len(kept_matches) : i < kept_matches[m].start \/ i >= kept_matches[m].end}

\* C22: after process_paragraph_with_color_aware_replacements every character
\* outside the replaced spans has the text colour and the highlight it had
\* before, and a paragraph in which nothing matched has the run list it had.
C22_OnlyMatchedSpansChange ==
    pc = "rewritten" =>
        /\ \A i \in OutsideReplacedSpans :
              ColoursAt(paragraph_after, i + ShiftBefore(kept_matches, i))
                  = ColoursAt(colour_runs, i)
        /\ kept_matches = <<>> => paragraph_after = colour_runs

----------------------------------------------------------------------------
(* Properties of the IF Betingelse transformation (SpecIf) *)

\* If betingelse Status"ja" Else "nej"
ScenarioText ==
    IfBetingelse \o <<SPACE>> \o StatusWord \o <<DQ, "j", "a", DQ>>
        \o <<SPACE, "E", "l", "s", "e", SPACE>> \o <<DQ, "n", "e", "j", DQ>>

\* { IF "J" = stat-key" " ja" " nej" }
ScenarioResult ==
    IfReplacement([key |-> StatKey, quote1 |-> <<"j", "a">>, quote2 |-> <<"n", "e", "j">>])

\* C23: transform_text_with_if_betingelse applied to the text
\* If betingelse Status"ja" Else "nej" with the mapping of Status to stat-key
\* returns { IF "J" = stat-key" " ja" " nej" }.
C23_IfBetingelseScenario ==
    (pc = "transformed" /\ if_text = ScenarioText /\ if_mappings = StatusMapping) =>
        if_result = ScenarioResult

----------------------------------------------------------------------------
(* Properties of the pattern compilation (SpecPattern) *)

CompilingPatterns(rl) == SelectSeq(rl, LAMBDA regex_str : regex_str.compiles)

\* C24: a pattern that does not compile is skipped alone: no exception reaches
\* the caller of process_document_with_regexes or of regex_replace_docx, and
\* every pattern that compiles is still processed and has its entry in the results
C24_MalformedPatternSkipped ==
    /\ pc # "raised"
    /\ pc = "found" =>
        /\ compiled_patterns = CompilingPatterns(regex_list)
        /\ \A i \in 1..Len(compiled_patterns) :
               DictHas(regex_results, compiled_patterns[i].source)
        /\ \A i \in 1..Len(regex_results) :
               \E j \in 1..Len(compiled_patterns) : compiled_patterns[j].source = regex_results[i][1]

----------------------------------------------------------------------------
(* Properties of process_docx_template (SpecTemplate) *)

\* the merge fields for key in the runs rs
RECURSIVE FieldCount(_, _)
FieldCount(rs, key) ==
    IF rs = <<>> THEN 0
    ELSE Cardinality({e \in 1..Len(Head(rs).content) :
                         Head(rs).content[e] = InstrText(MergeFieldInstruction(key))})
             + FieldCount(Tail(rs), key)

\* the occurrences of titles in the texts of the runs rs that stand for key
\* when every occurrence is replaced, the longest title first
RECURSIVE OccurrenceCount(_, _, _)
OccurrenceCount(rs, sorted_mappings, key) ==
    IF rs = <<>> THEN 0
    ELSE Len(ExactMatchesSkipping(DebugPreview(ElementsText(Head(rs).content), sorted_mappings),
                                  MergefieldText(key), 0))
             + OccurrenceCount(Tail(rs), sorted_mappings, key)

\* C25: when process_docx_template has gone through a paragraph that is not a
\* conditional one, no mapping title is left in the text of any of its runs, and
\* for every key the paragraph holds as many merge fields as the runs held
\* occurrences of its title, also when a title occurs twice in a run or two
\* titles occur in one run
C25_EveryOccurrenceReplaced ==
    pc = "processed" =>
        \A m \in 1..Len(template_mappings) :
            /\ \A i \in 1..Len(template_runs) :
                   Find(ElementsText(template_runs[i].content), template_mappings[m][1], 0) = -1
            /\ FieldCount(template_runs, template_mappings[m][2])
                   = OccurrenceCount(template_before, SortedMappings(template_mappings),
                                     template_mappings[m][2])

\* the title a merge field instruction stands for
TitleOfInstruction(mappings, instruction) ==
    LET hit == {m \in 1..Len(mappings) : MergeFieldInstruction(mappings[m][2]) = instruction}
    IN IF hit = {} THEN <<>> ELSE mappings[CHOOSE m \in hit : TRUE][1]

\* the elements in order, every merge field turned back into its title
RECURSIVE RestoreElements(_, _)
RestoreElements(content, mappings) ==
    IF content = <<>> THEN <<>>
    ELSE (CASE Head(content).tag = "t" -> Head(content).text
            [] Head(content).tag = "instrText" -> TitleOfInstruction(mappings, Head(content).text)
            [] OTHER -> <<>>)
             \o RestoreElements(Tail(content), mappings)

RECURSIVE RestoreTitles(_, _)
RestoreTitles(rs, mappings) ==
    IF rs = <<>> THEN <<>>
    ELSE RestoreElements(Head(rs).content, mappings) \o RestoreTitles(Tail(rs), mappings)

\* C30: rewriting a run loses and moves no other character of the paragraph:
\* after every iteration of the run loop the paragraph read in order, with each
\* inserted field put back to its title, is the original paragraph text, so the
\* text after a title stays behind its field and ahead of the later runs
C30_NoCharacterLostOrMoved ==
    pc \in {"runs", "processed"} =>
        RestoreTitles(template_runs, template_mappings) = TemplateText(template_before)

----------------------------------------------------------------------------
(* Properties of the greedy acceptance of the overlap resolver (SpecResolve) *)

Orders(n) == {f \in [1..n -> 1..n] : \A i, j \in 1..n : i # j => f[i] # f[j]}

\* the candidates ms taken in the order f are ascending by start, and those of
\* equal start stand in their order in ms
AscendingInputOrder(ms, f) ==
    \A i, j \in 1..Len(ms) :
        i < j => \/ ms[f[i]].start_pos < ms[f[j]].start_pos
                 \/ ms[f[i]].start_pos = ms[f[j]].start_pos /\ f[i] < f[j]

HalfOpenOverlap(new, accepted) ==
    new.start_pos < accepted.end_pos /\ new.end_pos > accepted.start_pos

RECURSIVE PickFrom(_, _, _)
PickFrom(ms, chosen, k) ==
    IF k > Len(ms) THEN <<>>
    ELSE (IF k \in chosen THEN <<ms[k]>> ELSE <<>>) \o PickFrom(ms, chosen, k + 1)

\* C26: _remove_overlapping_matches goes through the candidates by ascending
\* start, in input order among equal starts, and accepts a candidate exactly when
\* it overlaps none accepted before it (new start < accepted end and new end >
\* accepted start); so every dropped candidate overlaps an accepted one whose
\* start is not greater, and no dropped candidate could be added to the result
\* without an overlap
C26_GreedyAscendingAcceptance ==
    pc = "resolved" =>
        \E f \in Orders(Len(matches_in)) :
            LET considered == [i \in 1..Len(matches_in) |-> matches_in[f[i]]]
            IN /\ AscendingInputOrder(matches_in, f)
               /\ \E accepted \in SUBSET (1..Len(considered)) :
                      /\ \A k \in 1..Len(considered) :
                             k \in accepted <=>
                                 \A j \in accepted : j < k => ~HalfOpenOverlap(considered[k], considered[j])
                      /\ resolved = PickFrom(considered, accepted, 1)
                      /\ \A k \in (1..Len(considered)) \ accepted :
                             /\ \E j \in accepted :
                                    /\ HalfOpenOverlap(considered[k], considered[j])
                                    /\ considered[j].start_pos <= considered[k].start_pos
                             /\ \E r \in 1..Len(resolved) : HalfOpenOverlap(considered[k], resolved[r])
                      /\ \A i, j \in accepted :
                             i # j => ~HalfOpenOverlap(considered[i], considered[j])

\* candidates that were not in ascending order went in, two of them with the
\* same start, and one was dropped
C26_Witness ==
    /\ pc = "resolved"
    /\ Len(matches_in) = 3
    /\ Len(resolved) = 2
    /\ matches_in[1].start_pos > matches_in[3].start_pos
    /\ \E i, j \in 1..3 : i # j /\ matches_in[i].start_pos = matches_in[j].start_pos
                              /\ matches_in[i] # matches_in[j]

----------------------------------------------------------------------------
(* Properties of both overlap resolutions (SpecResolve, SpecColour) *)

SpanLength(m) == m.end_pos - m.start_pos

\* every candidate of ms that is not among kept overlaps a kept title match
\* that is at least as long
TitleDroppedForLonger(ms, kept) ==
    \A k \in 1..Len(ms) :
        \/ \E r \in 1..Len(kept) : kept[r] = ms[k]
        \/ \E r \in 1..Len(kept) : MatchesOverlap(ms[k], kept[r]) /\ kept[r].length >= ms[k].length

\* C27: in _remove_overlapping_matches and in find_non_overlapping_titles a
\* candidate is dropped only in favour of an overlapping candidate that is at
\* least as long: a shorter one never pre-empts a longer one that overlaps it
C27_ShorterNeverPreempts ==
    /\ pc = "resolved" =>
           \A k \in 1..Len(matches_in) :
               \/ \E r \in 1..Len(resolved) : resolved[r] = matches_in[k]
               \/ \E r \in 1..Len(resolved) :
                      /\ HalfOpenOverlap(matches_in[k], resolved[r])
                      /\ SpanLength(resolved[r]) >= SpanLength(matches_in[k])
    /\ pc = "coloured" =>
           \A s \in 1..Len(colour_segments) :
               TitleDroppedForLonger(
                   AllTitleMatches(colour_segments[s].text, SortedTitles(TitlesOf(title_map)), title_map),
                   FindNonOverlappingTitles(colour_segments[s].text, title_map))

----------------------------------------------------------------------------
(* Properties of the collected spans (SpecColour) *)

IsColoured(segment) == NonEmpty(segment.colors[1]) \/ NonEmpty(segment.colors[2])

\* the coloured segments whose offset range holds the span m
SegmentsHolding(m) ==
    {s \in 1..Len(colour_segments) :
        /\ IsColoured(colour_segments[s])
        /\ colour_segments[s].start <= m.start
        /\ m.end <= colour_segments[s].end}

SpansDisjoint(a, b) == a.end <= b.start \/ b.end <= a.start

\* the text t from offset i on, every span of ms replaced by its merge field
RECURSIVE RewrittenFrom(_, _, _)
RewrittenFrom(t, ms, i) ==
    IF i >= Len(t) THEN <<>>
    ELSE LET here == {m \in 1..Len(ms) : ms[m].start = i /\ ms[m].end > i}
         IN IF here = {} THEN <<t[i + 1]>> \o RewrittenFrom(t, ms, i + 1)
            ELSE LET m == CHOOSE m \in here : TRUE
                 IN MergefieldText(ms[m].key) \o RewrittenFrom(t, ms, ms[m].end)

\* the offsets of the characters of segments without colour
UncolouredOffsets ==
    UNION {colour_segments[s].start..(colour_segments[s].end - 1) :
              s \in {s \in 1..Len(colour_segments) : ~IsColoured(colour_segments[s])}}

\* C28: every span replace_titles_with_mergefields_respecting_colors collects
\* lies in the offset range of a coloured segment, the collected spans are
\* pairwise disjoint, the final overlap filter drops none of them, and the text
\* returned is the paragraph text with each collected span replaced by
\* { MERGEFIELD key }, no collected span touching a character of a segment
\* without colour
C28_CollectedSpansDisjoint ==
    pc = "coloured" =>
        /\ \A m \in 1..Len(valid_matches) : SegmentsHolding(valid_matches[m]) # {}
        /\ \A m, n \in 1..Len(valid_matches) :
               m # n => SpansDisjoint(valid_matches[m], valid_matches[n])
        /\ kept_matches = valid_matches
        /\ replaced_text = RewrittenFrom(JoinRunTexts(colour_runs), valid_matches, 0)
        /\ \A m \in 1..Len(valid_matches) :
               \A i \in UncolouredOffsets : i < valid_matches[m].start \/ i >= valid_matches[m].end

\* two spans were collected, one from a highlighted segment and one from a
\* segment of coloured text behind it, and both were replaced
C28_Witness ==
    /\ pc = "coloured"
    /\ Len(valid_matches) = 2
    /\ \E a, b \in 1..Len(colour_segments) :
           /\ NonEmpty(colour_segments[a].colors[2])
           /\ ~NonEmpty(colour_segments[b].colors[2])
           /\ SegmentsHolding(valid_matches[1]) = {b}
           /\ SegmentsHolding(valid_matches[2]) = {a}
    /\ replaced_text # JoinRunTexts(colour_runs)

----------------------------------------------------------------------------
(* Properties of the frame of regex_replace_docx (SpecRegex) *)

RunIdsOf(d) == UNION {{d[p][r].id : r \in 1..Len(d[p])} : p \in 1..Len(d)}

\* the run that holds the first run character of match k
FirstAffectedRun(k) == text_index[FirstRunOffset(k) + 1].run

\* the runs that hold a character of some match
MatchedRuns == UNION {RunsOfMatch(k) : k \in 1..Len(match_list)}

\* C29: regex_replace_docx adds and removes no paragraph, also when a match
\* spans a paragraph boundary; the first affected run of every match that has
\* been applied is still in the document; and every run that holds no character
\* of any match is in its paragraph with the text and the style it had
C29_FrameOfRegexReplace ==
    pc \in {"replacing", "returned"} =>
        /\ Len(doc) = Len(doc_before)
        /\ \A k \in AppliedMatches :
               RunsOfMatch(k) # {} => FirstAffectedRun(k) \in RunIdsOf(doc)
        /\ \A p \in 1..Len(doc_before) :
               \A r \in 1..Len(doc_before[p]) :
                   doc_before[p][r].id \notin MatchedRuns =>
                       \E r2 \in 1..Len(doc[p]) : doc[p][r2] = doc_before[p][r]

====
